---- MODULE Spec2Model ----
(***************************************************************************)
(* TiktokScrapService (tiktok-scrap.service.ts) and its controller as a    *)
(* state machine: the raw-result LRU cache, the shared browser promise,    *)
(* the per-request scrape runs and their pages, the navigator's ladder     *)
(* and the comment harvester's scroll loop.                                *)
(***************************************************************************)
EXTENDS Integers, Sequences, FiniteSets, TLC

(***************************************************************************)
(* Bounds of the model.                                                    *)
(***************************************************************************)
\* total number of requests the controller receives in one behaviour
MaxRequests == 4
\* last value of the wall clock (Date.now())
MaxTime == 2
\* number of requests received where two runs are followed step by step
MaxRuns == 2

\* the request slots: two requests can be in flight at once
Req == {1, 2}
\* the configurations tried: SCRAPER_CACHE_TTL_MS (0 = no TTL) and
\* SCRAPER_CACHE_MAX_ENTRIES
TtlValues == {0, 1}
CapValues == {1, 2}

(***************************************************************************)
(* Strings are sequences of characters; "e_acute" and "E_acute" are the    *)
(* precomposed letters U+00E9 and U+00C9, "acute" the combining mark       *)
(* U+0301.  Null stands for null/undefined.                                *)
(***************************************************************************)
Null == <<"<null>">>

RECURSIVE Flatten(_)
Flatten(ss) == IF ss = <<>> THEN <<>> ELSE Head(ss) \o Flatten(Tail(ss))

\* String.prototype.toLowerCase, on the model's alphabet
toLowerCase(s) ==
    [i \in 1..Len(s) |->
        CASE s[i] = "A" -> "a"
          [] s[i] = "B" -> "b"
          [] s[i] = "C" -> "c"
          [] s[i] = "E" -> "e"
          [] s[i] = "E_acute" -> "e_acute"
          [] OTHER -> s[i]]

\* String.prototype.normalize('NFD'): a precomposed letter becomes its base
\* letter followed by the combining mark
normalizeNFD(s) ==
    Flatten([i \in 1..Len(s) |->
        CASE s[i] = "e_acute" -> <<"e", "acute">>
          [] s[i] = "E_acute" -> <<"E", "acute">>
          [] OTHER -> <<s[i]>>])

\* .replace(/\p{Diacritic}/gu, '')
stripDiacritics(s) == SelectSeq(s, LAMBDA c : c # "acute")

RECURSIVE trimStart(_)
trimStart(s) == IF s # <<>> /\ Head(s) = " " THEN trimStart(Tail(s)) ELSE s

RECURSIVE trimEnd(_)
trimEnd(s) ==
    IF s # <<>> /\ s[Len(s)] = " " THEN trimEnd(SubSeq(s, 1, Len(s) - 1)) ELSE s

\* String.prototype.trim
trim(s) == trimEnd(trimStart(s))

\* String.prototype.includes
includes(h, n) ==
    \E i \in 0..(Len(h) - Len(n)) : SubSeq(h, i + 1, i + Len(n)) = n

\* norm(s): (s ?? '').toLowerCase().normalize('NFD').replace(/\p{Diacritic}/gu,'')
norm(s) ==
    stripDiacritics(normalizeNFD(toLowerCase(IF s = Null THEN <<>> ELSE s)))

\* contains(haystack, needle): !!n && h.includes(n)
contains(haystack, needle) ==
    LET h == norm(haystack)
        n == norm(needle)
    IN  n # <<>> /\ includes(h, n)

\* A URL is written as its scheme, its host and the characters of its path:
\* <<"https://", "www.tiktok.com", "/", "f">>.
\* /^https?:\/\//i.test(s)
isHttpUrl(s) == s # <<>> /\ s[1] \in {"https://", "http://"}

\* url.hostname.includes('tiktok.com'), on the hosts of the model
hostnameIncludesTikTok(h) ==
    h \in {"www.tiktok.com", "tiktok.com", "tiktok.com.evil.net"}

\* buildSearchUrl(input): throws, or returns the results page of the phrase q
buildSearchUrl(input) ==
    LET s == trim(IF input = Null THEN <<>> ELSE input)
        path == [i \in 1..(Len(s) - 2) |-> IF s[i + 2] = "/" THEN " " ELSE s[i + 2]]
    IN  IF s = <<>> THEN [threw |-> TRUE, q |-> <<>>]
        ELSE IF isHttpUrl(s)
             THEN IF Len(s) < 2 \/ ~hostnameIncludesTikTok(s[2])
                  THEN [threw |-> TRUE, q |-> <<>>]
                  ELSE [threw |-> FALSE, q |-> trim(path)]
             ELSE [threw |-> FALSE, q |-> s]

(***************************************************************************)
(* The LRU: a JavaScript Map, modelled as the sequence of its entries in   *)
(* insertion order.                                                        *)
(***************************************************************************)
MapKeys(m) == {m[i].key : i \in 1..Len(m)}
MapHas(m, key) == key \in MapKeys(m)
MapGet(m, key) == m[CHOOSE i \in 1..Len(m) : m[i].key = key]
MapDelete(m, key) == SelectSeq(m, LAMBDA e : e.key # key)
\* Map.prototype.set keeps the position of a key that is already present
MapSet(m, key, e) ==
    IF MapHas(m, key)
    THEN [i \in 1..Len(m) |-> IF m[i].key = key THEN e ELSE m[i]]
    ELSE Append(m, e)

\* lruKeyRaw(search, maxCount): `${(search ?? '').trim().toLowerCase()}+${maxCount}`
lruKeyRaw(search, maxCount) ==
    <<toLowerCase(trim(IF search = Null THEN <<>> ELSE search)), maxCount>>

NoHit == [key |-> <<>>]

lruGet_notouch(m, key, t, ttl) ==
    IF ~MapHas(m, key) THEN [lru |-> m, found |-> FALSE, hit |-> NoHit]
    ELSE LET hit == MapGet(m, key) IN
         IF ttl > 0 /\ (t - hit.createdAt) > ttl
         THEN [lru |-> MapDelete(m, key), found |-> FALSE, hit |-> NoHit]
         ELSE [lru |-> m, found |-> TRUE, hit |-> hit]

lruGet_restamp(m, key, t, ttl) ==
    IF ~MapHas(m, key) THEN [lru |-> m, found |-> FALSE, hit |-> NoHit]
    ELSE LET hit == MapGet(m, key) IN
         IF ttl > 0 /\ (t - hit.createdAt) > ttl
         THEN [lru |-> MapDelete(m, key), found |-> FALSE, hit |-> NoHit]
         ELSE [lru |-> MapSet(MapDelete(m, key), key, [hit EXCEPT !.createdAt = t]),
               found |-> TRUE, hit |-> hit]

\* lruGet(key) at time t with CACHE_TTL_MS = ttl: the map afterwards, and the hit
lruGet(m, key, t, ttl) ==
    IF ~MapHas(m, key) THEN [lru |-> m, found |-> FALSE, hit |-> NoHit]
    ELSE LET hit == MapGet(m, key) IN
         IF ttl > 0 /\ (t - hit.createdAt) > ttl
         THEN [lru |-> MapDelete(m, key), found |-> FALSE, hit |-> NoHit]
         ELSE [lru |-> MapSet(MapDelete(m, key), key, hit),
               found |-> TRUE, hit |-> hit]

\* while (this.lru.size > CACHE_MAX_ENTRIES) delete the first key
RECURSIVE evictOldest(_, _)
evictOldest(m, cap) ==
    IF Len(m) > cap THEN evictOldest(Tail(m), cap) ELSE m

lruSet_noevict(m, key, value, t, cap) ==
    MapSet(IF MapHas(m, key) THEN MapDelete(m, key) ELSE m, key,
           [key |-> key, items |-> value.items, metrics |-> value.metrics,
            createdAt |-> t])

lruSet_fresh(m, key, value, t, cap) ==
    << [key |-> key, items |-> value.items, metrics |-> value.metrics,
        createdAt |-> t] >>

lruSet_keepsFirst(m, key, value, t, cap) ==
    IF MapHas(m, key) THEN m
    ELSE evictOldest(
             MapSet(m, key,
                    [key |-> key, items |-> value.items,
                     metrics |-> value.metrics, createdAt |-> t]),
             cap)

\* lruSet(key, value) at time t with CACHE_MAX_ENTRIES = cap
lruSet(m, key, value, t, cap) ==
    evictOldest(
        MapSet(IF MapHas(m, key) THEN MapDelete(m, key) ELSE m, key,
               [key |-> key, items |-> value.items, metrics |-> value.metrics,
                createdAt |-> t]),
        cap)

(***************************************************************************)
(* Annotation and filter (scrapeAnnotateAndCache, after the cache).        *)
(***************************************************************************)
\* (v.comments ?? []).some(c => this.contains(c.text, keyword))
someComment(comments, keyword) ==
    \E j \in 1..Len(comments) : contains(comments[j].text, keyword)

mentioned_withTitle(v, keyword) ==
    \/ contains(v.description, keyword)
    \/ someComment(v.comments, keyword)
    \/ contains(v.title, keyword)

\* mentioned: contains(v.description, keyword) || some comment contains it
mentioned(v, keyword) ==
    contains(v.description, keyword) \/ someComment(v.comments, keyword)

annotate_keepsFlag(items, keyword) ==
    [j \in 1..Len(items) |->
        items[j] @@ [keywordMentioned |-> mentioned(items[j], keyword)]]

\* raw.items.map(v => ({ ...v, keywordMentioned: !!mentioned })): new objects
annotate(items, keyword) ==
    [j \in 1..Len(items) |->
        [keywordMentioned |-> mentioned(items[j], keyword)] @@ items[j]]

filterItems_always(annotated, showOnly) ==
    SelectSeq(annotated, LAMBDA v : v.keywordMentioned)

\* showVideoOnlyWithMatchKeyword ? annotated.filter(v => v.keywordMentioned) : annotated
filterItems(annotated, showOnly) ==
    IF showOnly THEN SelectSeq(annotated, LAMBDA v : v.keywordMentioned)
    ELSE annotated

(***************************************************************************)
(* Inputs: what a request may carry and what a page may show.              *)
(***************************************************************************)
Searches == {<<"f">>, <<" ", "F">>, <<"g">>, <<"h">>}
Keywords == {<<"c", "a", "f", "e">>, <<"B">>}
MaxCounts == {1, 2}

\* the records extractFromPage can return on the pages of the model
Videos ==
    { [url |-> "v1", title |-> <<"x">>,
       description |-> <<"C", "a", "f", "e_acute">>, comments |-> <<>>],
      [url |-> "v2", title |-> <<"c", "a", "f", "e">>,
       description |-> Null,
       comments |-> << [username |-> "unknown", text |-> <<"a", "b">>] >>] }

\* the feed of the site in the cache scenario: the video shown at step i
SiteFeed ==
    << [url |-> "v1", title |-> <<"x">>,
        description |-> <<"C", "a", "f", "e_acute">>, comments |-> <<>>],
       [url |-> "v2", title |-> <<"c", "a", "f", "e">>,
        description |-> Null,
        comments |-> << [username |-> "unknown", text |-> <<"a", "b">>] >>] >>

(***************************************************************************)
(* State.                                                                  *)
(***************************************************************************)
VARIABLES
    now,                \* Date.now()
    CACHE_TTL_MS,       \* configuration, fixed for the process lifetime
    CACHE_MAX_ENTRIES,  \* configuration, fixed for the process lifetime
    KEEP_BROWSER_OPEN,  \* process.env.KEEP_BROWSER_OPEN === '1'
    lru,                \* this.lru, entries in Map order
    browserPromise,     \* this.browserPromise: 0 (null) or an index of promises
    promises,           \* the promises puppeteer.launch has returned, in order
    openPages,          \* the open pages, each named by the id of its run
    run,                \* the request slots: each request's position, locals and
                        \* response; id numbers the request, sawPromise and
                        \* sawFresh record what it found when it arrived
    requests,           \* number of requests received so far
    hist,               \* history of the stored keys: their order of last use
                        \* and of insertion, those hit since their set, and what
                        \* the last get or set did
    nav,                \* one call of goToNextVideo: its position, clock and
                        \* locals, the page it drives and what it invoked
    harvest,            \* one call of extractComments: its position, clock and
                        \* locals, and the comment nodes rendered on its page
    ann,                \* one use of the annotation: the items and keywords
                        \* given, the lists returned, the items afterwards
    NODE_ENV,           \* process.env.NODE_ENV
    shutdown,           \* onModuleDestroy: its position, the browsers closed
    fn                  \* one call of a helper: its name, argument and result

vars == <<now, CACHE_TTL_MS, CACHE_MAX_ENTRIES, KEEP_BROWSER_OPEN, lru,
          browserPromise, promises, openPages, run, requests, hist, nav,
          harvest, ann, NODE_ENV, shutdown, fn>>

NoMetrics == [videosTargeted |-> 0, videosScraped |-> 0, navFailures |-> 0,
              captchas |-> 0, totalComments |-> 0, perVideo |-> <<>>]

\* const per: PerVideoMetrics = { index: i, ..., errors: [] }
NewPer(i) ==
    [index |-> i, endedAt |-> "", commentsCount |-> 0, navSucceeded |-> FALSE,
     errors |-> <<>>]

\* a response's metrics: <<>> for null, <<m>> for the metrics m of a run
NoResponse == [fromCache |-> FALSE, metrics |-> <<>>, items |-> <<>>]

IdleRun ==
    [pc |-> "idle", id |-> 0, search |-> <<>>, keyword |-> <<>>, maxCount |-> 0,
     showOnly |-> FALSE, forceRefresh |-> FALSE, rawKey |-> <<>>,
     promise |-> 0, browser |-> 0, i |-> 0, items |-> <<>>,
     metrics |-> NoMetrics, thrown |-> FALSE, response |-> NoResponse,
     sawPromise |-> "none", sawFresh |-> FALSE,
     mode |-> "search", per |-> NewPer(0), event |-> "none", navCalls |-> 0]

\* what goToNextVideo reads of a page: page.url(), the video's currentSrc
\* (<<"<null>">> standing for null: no video element) and the caption's text
Urls == {"/video/1", "/video/2", "/foryou"}
Srcs == {"<null>", "s1", "s2"}
Captions == {"", "c1", "c2"}
Pages == [url : Urls, src : Srcs, caption : Captions]

NavTimeouts == {12000, 20000}

IdleNav ==
    [pc |-> "idle", timeoutMs |-> 0, t |-> 0, deadline |-> 0,
     localDeadline |-> 0, rung |-> 0, attempts |-> 0, moved |-> FALSE,
     page |-> [url |-> "/video/1", src |-> "s1", caption |-> "c1"],
     before |-> [url |-> "/video/1", src |-> "s1", caption |-> "c1"],
     invoked |-> <<>>, changed |-> FALSE]

HarvestLimits == {2, 20}
HardTimeouts == {1000, 12000}

IdleAnn ==
    [pc |-> "idle", items |-> <<>>, kw1 |-> <<>>, kw2 |-> <<>>, once |-> <<>>,
     twice |-> <<>>, direct |-> <<>>, source |-> <<>>, showOnly |-> FALSE,
     filtered |-> <<>>, matching |-> <<>>, again |-> <<>>]

IdleHarvest ==
    [pc |-> "idle", limit |-> 0, hardTimeoutMs |-> 0, containerSel |-> FALSE,
     t |-> 0, deadline |-> 0, lastCount |-> 0, count |-> 0, nodes |-> <<>>,
     items |-> <<>>]

\* NODE_ENV as the process may be started: production, development, or unset
NodeEnvs == {"production", "development", "<unset>"}

IdleFn == [pc |-> "idle", name |-> "none", arg |-> <<>>, result |-> <<>>]

Init ==
    /\ now = 0
    /\ CACHE_TTL_MS \in TtlValues
    /\ CACHE_MAX_ENTRIES \in CapValues
    /\ KEEP_BROWSER_OPEN \in BOOLEAN
    /\ lru = <<>>
    /\ browserPromise = 0
    /\ promises = <<>>
    /\ openPages = {}
    /\ run = [r \in Req |-> IdleRun]
    /\ requests = 0
    /\ hist = [note |-> "none", used |-> <<>>, inserted |-> <<>>, touched |-> {}]
    /\ nav = IdleNav
    /\ harvest = IdleHarvest
    /\ ann = IdleAnn
    /\ NODE_ENV \in NodeEnvs
    /\ shutdown = [pc |-> "running", promise |-> 0, closed |-> {}]
    /\ fn = IdleFn

(***************************************************************************)
(* Operations.                                                             *)
(***************************************************************************)
launchBrowser_unlessResolved(bp, ps) ==
    IF bp = 0 \/ ps[bp] # "resolved"
    THEN [browserPromise |-> Len(ps) + 1, promises |-> Append(ps, "pending")]
    ELSE [browserPromise |-> bp, promises |-> ps]

\* launchBrowser(): if (!this.browserPromise) this.browserPromise = puppeteer.launch(..)
launchBrowser(bp, ps) ==
    IF bp = 0
    THEN [browserPromise |-> Len(ps) + 1, promises |-> Append(ps, "pending")]
    ELSE [browserPromise |-> bp, promises |-> ps]

readCache_ignoringForce(m, key, t, ttl, forceRefresh) ==
    lruGet(m, key, t, ttl)

\* let raw = !forceRefresh ? this.lruGet(rawKey) : null
readCache(m, key, t, ttl, forceRefresh) ==
    IF forceRefresh THEN [lru |-> m, found |-> FALSE, hit |-> NoHit]
    ELSE lruGet(m, key, t, ttl)

cachedValue_annotated(items, metrics, keyword) ==
    [items |-> annotate(items, keyword), metrics |-> metrics]

\* this.lruSet(rawKey, { items, metrics }): the value handed to the cache
cachedValue(items, metrics, keyword) ==
    [items |-> items, metrics |-> metrics]

controllerResponse_keepsMetrics(items, metrics, fromCache) ==
    [fromCache |-> fromCache, metrics |-> <<metrics>>, items |-> items]

\* data: { fromCache, metrics: fromCache ? null : metrics, items }
controllerResponse(items, metrics, fromCache) ==
    [fromCache |-> fromCache,
     metrics |-> IF fromCache THEN <<>> ELSE <<metrics>>,
     items |-> items]

pagesAfterRun_onSuccessOnly(pages, page, keep, thrown) ==
    IF keep \/ thrown THEN pages ELSE pages \ {page}

\* finally { if (process.env.KEEP_BROWSER_OPEN !== '1') await page.close() }
pagesAfterRun(pages, page, keep, thrown) ==
    IF keep THEN pages ELSE pages \ {page}

\* an entry for key is stored and not older than the TTL
FreshAt(key) ==
    /\ MapHas(lru, key)
    /\ (CACHE_TTL_MS = 0 \/ now - MapGet(lru, key).createdAt <= CACHE_TTL_MS)

\* key moved to the end of the list of keys ks
MovedLast(ks, key) == Append(SelectSeq(ks, LAMBDA k : k # key), key)

\* a comes before b in the list of keys ks
Before(ks, a, b) ==
    \E i, j \in 1..Len(ks) : i < j /\ ks[i] = a /\ ks[j] = b

\* the history after a get of key that leaves the map m
histGet(key, m) ==
    LET used == IF FreshAt(key) THEN MovedLast(hist.used, key) ELSE hist.used
    IN  [note |-> IF ~MapHas(lru, key) THEN "miss"
                  ELSE IF FreshAt(key) THEN "hit"
                  ELSE IF key \in hist.touched THEN "expiredAfterHit"
                  ELSE "expired",
         used |-> SelectSeq(used, LAMBDA k : MapHas(m, k)),
         inserted |-> SelectSeq(hist.inserted, LAMBDA k : MapHas(m, k)),
         touched |-> {k \in hist.touched \cup
                            (IF FreshAt(key) THEN {key} ELSE {}) : MapHas(m, k)}]

\* the history after a set of key that leaves the map m
histSet(key, m) ==
    LET evicted == (MapKeys(lru) \cup {key}) \ MapKeys(m)
        inserted == MovedLast(hist.inserted, key)
    IN  [note |-> IF evicted = {}
                  THEN IF ~MapHas(lru, key) THEN "added"
                       ELSE IF MapGet(lru, key).createdAt < now THEN "replacedOlder"
                       ELSE "replaced"
                  ELSE IF \E e \in evicted, k \in MapKeys(m) \ {key} :
                              Before(inserted, k, e)
                       THEN "evictedNewer" ELSE "evicted",
         used |-> SelectSeq(MovedLast(hist.used, key), LAMBDA k : MapHas(m, k)),
         inserted |-> SelectSeq(inserted, LAMBDA k : MapHas(m, k)),
         touched |-> {k \in hist.touched \ {key} : MapHas(m, k)}]

\* the history after entries were cleared, leaving the map m
histClear(m) ==
    [note |-> hist.note,
     used |-> SelectSeq(hist.used, LAMBDA k : MapHas(m, k)),
     inserted |-> SelectSeq(hist.inserted, LAMBDA k : MapHas(m, k)),
     touched |-> {k \in hist.touched : MapHas(m, k)}]

\* the controller receives a request: scrapeAnnotateAndCache up to its first await
Request(r, search, keyword, maxCount, showOnly, forceRefresh) ==
    /\ run[r].pc \in {"idle", "done", "failed"}
    /\ requests < MaxRequests
    /\ requests' = requests + 1
    /\ LET rawKey == lruKeyRaw(search, maxCount)
           got == readCache(lru, rawKey, now, CACHE_TTL_MS, forceRefresh)
           lb == launchBrowser(browserPromise, promises)
           me == [IdleRun EXCEPT !.id = requests + 1,
                                 !.sawFresh = FreshAt(rawKey),
                                 !.search = search, !.keyword = keyword,
                                 !.maxCount = maxCount, !.showOnly = showOnly,
                                 !.forceRefresh = forceRefresh, !.rawKey = rawKey]
       IN  /\ lru' = got.lru
           /\ hist' = IF forceRefresh THEN hist
                      ELSE histGet(rawKey, got.lru)
           /\ IF got.found
              THEN /\ run' = [run EXCEPT ![r] =
                        [me EXCEPT !.pc = "done",
                                   !.response = controllerResponse(
                                       filterItems(annotate(got.hit.items, keyword),
                                                   showOnly),
                                       got.hit.metrics, TRUE)]]
                   /\ UNCHANGED <<browserPromise, promises>>
              ELSE /\ run' = [run EXCEPT ![r] =
                        [me EXCEPT !.pc = "awaitBrowser",
                                   !.promise = lb.browserPromise,
                                   !.sawPromise =
                                       IF browserPromise = 0 THEN "null"
                                       ELSE promises[browserPromise],
                                   !.metrics = [NoMetrics EXCEPT
                                       !.videosTargeted = maxCount]]]
                   /\ browserPromise' = lb.browserPromise
                   /\ promises' = lb.promises
    /\ UNCHANGED <<nav, harvest, ann, NODE_ENV, shutdown, fn>>
    /\ UNCHANGED <<now, CACHE_TTL_MS, CACHE_MAX_ENTRIES, KEEP_BROWSER_OPEN,
                   openPages>>

\* scrapeSequence(startUrl, maxCount) is called: up to its first await
scrapeSequence(r, maxCount) ==
    /\ run[r].pc \in {"idle", "done", "failed"}
    /\ requests < MaxRequests
    /\ requests' = requests + 1
    /\ LET lb == launchBrowser(browserPromise, promises)
       IN  /\ run' = [run EXCEPT ![r] =
                  [IdleRun EXCEPT !.id = requests + 1, !.mode = "sequence",
                                  !.maxCount = maxCount, !.pc = "awaitBrowser",
                                  !.promise = lb.browserPromise,
                                  !.sawPromise =
                                      IF browserPromise = 0 THEN "null"
                                      ELSE promises[browserPromise],
                                  !.metrics = [NoMetrics EXCEPT
                                      !.videosTargeted = maxCount]]]
           /\ browserPromise' = lb.browserPromise
           /\ promises' = lb.promises
    /\ UNCHANGED <<nav, harvest, ann, NODE_ENV, shutdown, fn>>
    /\ UNCHANGED <<now, CACHE_TTL_MS, CACHE_MAX_ENTRIES, KEEP_BROWSER_OPEN, lru,
                   openPages, hist>>

\* puppeteer.launch settles
BrowserSettles(p, outcome) ==
    /\ p \in 1..Len(promises)
    /\ promises[p] = "pending"
    /\ promises' = [promises EXCEPT ![p] = outcome]
    /\ UNCHANGED <<nav, harvest, ann, NODE_ENV, shutdown, fn>>
    /\ UNCHANGED <<now, CACHE_TTL_MS, CACHE_MAX_ENTRIES, KEEP_BROWSER_OPEN, lru,
                   browserPromise, openPages, run, requests, hist>>

\* const browser = await this.launchBrowser(); const page = await browser.newPage()
OpenPage(r) ==
    /\ run[r].pc = "awaitBrowser"
    /\ promises[run[r].promise] = "resolved"
    /\ run' = [run EXCEPT ![r].pc = "setup", ![r].browser = run[r].promise]
    /\ openPages' = openPages \cup {run[r].id}
    /\ UNCHANGED <<nav, harvest, ann, NODE_ENV, shutdown, fn>>
    /\ UNCHANGED <<now, CACHE_TTL_MS, CACHE_MAX_ENTRIES, KEEP_BROWSER_OPEN, lru,
                   browserPromise, promises, requests, hist>>

\* the launch was rejected, or newPage() rejects: the run throws before its try
AcquireFails(r) ==
    /\ run[r].pc = "awaitBrowser"
    /\ promises[run[r].promise] \in {"resolved", "rejected"}
    /\ run' = [run EXCEPT ![r].pc = "failed", ![r].thrown = TRUE,
                         ![r].event = "acquireFailed"]
    /\ UNCHANGED <<nav, harvest, ann, NODE_ENV, shutdown, fn>>
    /\ UNCHANGED <<now, CACHE_TTL_MS, CACHE_MAX_ENTRIES, KEEP_BROWSER_OPEN, lru,
                   browserPromise, promises, openPages, requests, hist>>

\* the loop has ended: videosScraped = items.length; return; then the finally
finalized(me) ==
    [me EXCEPT !.pc = "closing", !.metrics.videosScraped = Len(me.items)]

\* per.endedAt = nowIso(); per.durationMs = ...; per.urlAfter = page.url()
sealPer(me) == [me EXCEPT !.per.endedAt = "stamped"]

\* metrics.perVideo.push(per)
pushPer(me) == [me EXCEPT !.metrics.perVideo = Append(@, me.per)]

\* for (let i = 0; i < maxCount; i++)
\* scrapeFromSearch begins each step with the captcha probe, scrapeSequence
\* with the extraction
loopHead(me) ==
    IF me.i < me.maxCount
    THEN [me EXCEPT !.pc = IF me.mode = "search" THEN "probe" ELSE "extract",
                    !.per = NewPer(me.i)]
    ELSE finalized(me)

\* scrapeFromSearch: buildSearchUrl, openFirstVideoFromSearch; scrapeSequence:
\* page.goto(startUrl); each may throw
Setup(r, ok) ==
    /\ run[r].pc = "setup"
    /\ run' = [run EXCEPT ![r] =
          IF ok /\ (run[r].mode = "sequence"
                       \/ ~buildSearchUrl(run[r].search).threw)
          THEN loopHead([run[r] EXCEPT !.i = 0, !.event = "setupOk"])
          ELSE [run[r] EXCEPT !.pc = "closing", !.thrown = TRUE,
                              !.event = "setupFailed"]]
    /\ UNCHANGED <<nav, harvest, ann, NODE_ENV, shutdown, fn>>
    /\ UNCHANGED <<now, CACHE_TTL_MS, CACHE_MAX_ENTRIES, KEEP_BROWSER_OPEN, lru,
                   browserPromise, promises, openPages, requests, hist>>

Probe_noWait(r, challenge) ==
    /\ run[r].pc = "probe"
    /\ run' = [run EXCEPT ![r] =
          IF challenge
          THEN [run[r] EXCEPT !.pc = "extract", !.metrics.captchas = @ + 1,
                              !.event = "probeChallenge"]
          ELSE [run[r] EXCEPT !.pc = "extract", !.event = "probeClear"]]
    /\ UNCHANGED <<nav, harvest, ann, NODE_ENV, shutdown, fn>>
    /\ UNCHANGED <<now, CACHE_TTL_MS, CACHE_MAX_ENTRIES, KEEP_BROWSER_OPEN, lru,
                   browserPromise, promises, openPages, requests, hist>>

\* the captcha probe at the start of a traversal step
Probe(r, challenge) ==
    /\ run[r].pc = "probe"
    /\ run' = [run EXCEPT ![r] =
          IF challenge
          THEN [run[r] EXCEPT !.pc = "captchaWait", !.metrics.captchas = @ + 1,
                              !.event = "probeChallenge"]
          ELSE [run[r] EXCEPT !.pc = "extract", !.event = "probeClear"]]
    /\ UNCHANGED <<nav, harvest, ann, NODE_ENV, shutdown, fn>>
    /\ UNCHANGED <<now, CACHE_TTL_MS, CACHE_MAX_ENTRIES, KEEP_BROWSER_OPEN, lru,
                   browserPromise, promises, openPages, requests, hist>>

\* a line arrives on process.stdin: every listener registered with once('data')
\* is called
OperatorInput ==
    /\ \E r \in Req : run[r].pc = "captchaWait"
    /\ run' = [r \in Req |->
          IF run[r].pc = "captchaWait"
          THEN [run[r] EXCEPT !.pc = "extract", !.event = "input"]
          ELSE run[r]]
    /\ UNCHANGED <<nav, harvest, ann, NODE_ENV, shutdown, fn>>
    /\ UNCHANGED <<now, CACHE_TTL_MS, CACHE_MAX_ENTRIES, KEEP_BROWSER_OPEN, lru,
                   browserPromise, promises, openPages, requests, hist>>

afterExtract_noLastTest(me) == [me EXCEPT !.pc = "navigate"]

\* after the try/catch around extractFromPage: the last target, or on to navigation
afterExtract(me) ==
    IF me.i = me.maxCount - 1 THEN finalized(pushPer(sealPer(me)))
    ELSE [me EXCEPT !.pc = "navigate"]

\* extractFromPage returns a record, which is pushed
ExtractOk(r, v) ==
    /\ run[r].pc = "extract"
    /\ run' = [run EXCEPT ![r] =
          afterExtract([run[r] EXCEPT
              !.items = Append(@, v),
              !.per.commentsCount = Len(v.comments),
              !.metrics.totalComments = @ + Len(v.comments),
              !.event = "extractOk"])]
    /\ UNCHANGED <<nav, harvest, ann, NODE_ENV, shutdown, fn>>
    /\ UNCHANGED <<now, CACHE_TTL_MS, CACHE_MAX_ENTRIES, KEEP_BROWSER_OPEN, lru,
                   browserPromise, promises, openPages, requests, hist>>

ExtractThrows_fatal(r) ==
    /\ run[r].pc = "extract"
    /\ run' = [run EXCEPT ![r] =
          [run[r] EXCEPT !.pc = "closing", !.thrown = TRUE,
                         !.event = "extractThrew"]]
    /\ UNCHANGED <<nav, harvest, ann, NODE_ENV, shutdown, fn>>
    /\ UNCHANGED <<now, CACHE_TTL_MS, CACHE_MAX_ENTRIES, KEEP_BROWSER_OPEN, lru,
                   browserPromise, promises, openPages, requests, hist>>

\* extractFromPage throws: caught, recorded in the step's errors
ExtractThrows(r) ==
    /\ run[r].pc = "extract"
    /\ run' = [run EXCEPT ![r] =
          afterExtract([run[r] EXCEPT
              !.per.errors = Append(@, "extraction failed"),
              !.event = "extractThrew"])]
    /\ UNCHANGED <<nav, harvest, ann, NODE_ENV, shutdown, fn>>
    /\ UNCHANGED <<now, CACHE_TTL_MS, CACHE_MAX_ENTRIES, KEEP_BROWSER_OPEN, lru,
                   browserPromise, promises, openPages, requests, hist>>

Navigate_fatal(r, outcome) ==
    /\ run[r].pc = "navigate"
    /\ run' = [run EXCEPT ![r] =
          CASE outcome = "moved" ->
                 loopHead(pushPer(sealPer([run[r] EXCEPT
                     !.i = @ + 1, !.navCalls = @ + 1,
                     !.per.navSucceeded = TRUE, !.event = "navMoved"])))
            [] outcome = "stuck" ->
                 [run[r] EXCEPT !.pc = "closing", !.thrown = TRUE,
                                !.event = "navStuck"]
            [] OTHER -> [run[r] EXCEPT !.pc = "closing", !.thrown = TRUE,
                                       !.event = "navThrew"]]
    /\ UNCHANGED <<nav, harvest, ann, NODE_ENV, shutdown, fn>>
    /\ UNCHANGED <<now, CACHE_TTL_MS, CACHE_MAX_ENTRIES, KEEP_BROWSER_OPEN, lru,
                   browserPromise, promises, openPages, requests, hist>>

Navigate_stuckUnrecorded(r, outcome) ==
    /\ run[r].pc = "navigate"
    /\ run' = [run EXCEPT ![r] =
          CASE outcome = "moved" ->
                 loopHead(pushPer(sealPer([run[r] EXCEPT
                     !.i = @ + 1, !.navCalls = @ + 1,
                     !.per.navSucceeded = TRUE, !.event = "navMoved"])))
            [] outcome = "stuck" ->
                 finalized([run[r] EXCEPT
                     !.navCalls = @ + 1, !.metrics.navFailures = @ + 1,
                     !.event = "navStuck"])
            [] OTHER -> [run[r] EXCEPT !.pc = "closing", !.thrown = TRUE,
                                       !.navCalls = @ + 1,
                                       !.event = "navThrew"]]
    /\ UNCHANGED <<nav, harvest, ann, NODE_ENV, shutdown, fn>>
    /\ UNCHANGED <<now, CACHE_TTL_MS, CACHE_MAX_ENTRIES, KEEP_BROWSER_OPEN, lru,
                   browserPromise, promises, openPages, requests, hist>>

\* goToNextVideo returns moved, returns not moved, or throws
Navigate(r, outcome) ==
    /\ run[r].pc = "navigate"
    /\ run' = [run EXCEPT ![r] =
          CASE outcome = "moved" ->
                 loopHead(pushPer(sealPer([run[r] EXCEPT
                     !.i = @ + 1, !.navCalls = @ + 1,
                     !.per.navSucceeded = TRUE, !.event = "navMoved"])))
            [] outcome = "stuck" ->
                 finalized(pushPer(sealPer([run[r] EXCEPT
                     !.navCalls = @ + 1, !.metrics.navFailures = @ + 1,
                     !.event = "navStuck"])))
            [] OTHER -> [run[r] EXCEPT !.pc = "closing", !.thrown = TRUE,
                                       !.navCalls = @ + 1,
                                       !.event = "navThrew"]]
    /\ UNCHANGED <<nav, harvest, ann, NODE_ENV, shutdown, fn>>
    /\ UNCHANGED <<now, CACHE_TTL_MS, CACHE_MAX_ENTRIES, KEEP_BROWSER_OPEN, lru,
                   browserPromise, promises, openPages, requests, hist>>

RunEnds_cachesFailure(r) ==
    /\ run[r].pc = "closing"
    /\ openPages' = pagesAfterRun(openPages, run[r].id, KEEP_BROWSER_OPEN,
                                  run[r].thrown)
    /\ LET me == run[r]
           value == cachedValue(me.items, me.metrics, me.keyword)
       IN  /\ lru' = lruSet(lru, me.rawKey, value, now, CACHE_MAX_ENTRIES)
           /\ hist' = histSet(me.rawKey, lru')
           /\ run' = [run EXCEPT ![r].pc = IF me.thrown THEN "failed" ELSE "done",
                         ![r].response = controllerResponse(
                             filterItems(annotate(me.items, me.keyword),
                                         me.showOnly),
                             me.metrics, FALSE)]
    /\ UNCHANGED <<nav, harvest, ann, NODE_ENV, shutdown, fn>>
    /\ UNCHANGED <<now, CACHE_TTL_MS, CACHE_MAX_ENTRIES, KEEP_BROWSER_OPEN,
                   browserPromise, promises, requests>>

RunEnds_cachesComplete(r) ==
    /\ run[r].pc = "closing"
    /\ openPages' = pagesAfterRun(openPages, run[r].id, KEEP_BROWSER_OPEN,
                                  run[r].thrown)
    /\ IF run[r].thrown
       THEN /\ run' = [run EXCEPT ![r].pc = "failed"]
            /\ UNCHANGED <<lru, hist>>
       ELSE LET me == run[r]
                value == cachedValue(me.items, me.metrics, me.keyword)
            IN  /\ IF Len(me.items) = me.maxCount /\ me.items # <<>>
                   THEN /\ lru' = lruSet(lru, me.rawKey, value, now,
                                         CACHE_MAX_ENTRIES)
                        /\ hist' = histSet(me.rawKey, lru')
                   ELSE UNCHANGED <<lru, hist>>
                /\ run' = [run EXCEPT ![r].pc = "done",
                              ![r].response = controllerResponse(
                                  filterItems(annotate(me.items, me.keyword),
                                              me.showOnly),
                                  me.metrics, FALSE)]
    /\ UNCHANGED <<nav, harvest, ann, NODE_ENV, shutdown, fn>>
    /\ UNCHANGED <<now, CACHE_TTL_MS, CACHE_MAX_ENTRIES, KEEP_BROWSER_OPEN,
                   browserPromise, promises, requests>>

\* the finally block completes; a run of scrapeFromSearch that returned is cached,
\* annotated, answered; a run of scrapeSequence returns its items and metrics
RunEnds(r) ==
    /\ run[r].pc = "closing"
    /\ openPages' = pagesAfterRun(openPages, run[r].id, KEEP_BROWSER_OPEN,
                                  run[r].thrown)
    /\ IF run[r].thrown
       THEN /\ run' = [run EXCEPT ![r].pc = "failed"]
            /\ UNCHANGED <<lru, hist>>
       ELSE IF run[r].mode = "sequence"
       THEN /\ run' = [run EXCEPT ![r].pc = "done",
                          ![r].response = [fromCache |-> FALSE,
                                           metrics |-> <<run[r].metrics>>,
                                           items |-> run[r].items]]
            /\ UNCHANGED <<lru, hist>>
       ELSE LET me == run[r]
                value == cachedValue(me.items, me.metrics, me.keyword)
            IN  /\ lru' = lruSet(lru, me.rawKey, value, now, CACHE_MAX_ENTRIES)
                /\ hist' = histSet(me.rawKey, lru')
                /\ run' = [run EXCEPT ![r].pc = "done",
                              ![r].response = controllerResponse(
                                  filterItems(annotate(me.items, me.keyword),
                                              me.showOnly),
                                  me.metrics, FALSE)]
    /\ UNCHANGED <<nav, harvest, ann, NODE_ENV, shutdown, fn>>
    /\ UNCHANGED <<now, CACHE_TTL_MS, CACHE_MAX_ENTRIES, KEEP_BROWSER_OPEN,
                   browserPromise, promises, requests>>

\* clearCacheEntry(search, maxCount)
ClearCacheEntry(search, maxCount) ==
    /\ lru # <<>>
    /\ LET key == lruKeyRaw(search, maxCount)
       IN  /\ lru' = MapDelete(lru, key)
           /\ hist' = histClear(lru')
    /\ UNCHANGED <<nav, harvest, ann, NODE_ENV, shutdown, fn>>
    /\ UNCHANGED <<now, CACHE_TTL_MS, CACHE_MAX_ENTRIES, KEEP_BROWSER_OPEN,
                   browserPromise, promises, openPages, run, requests>>

\* clearCacheAll()
ClearCacheAll ==
    /\ lru # <<>>
    /\ lru' = <<>>
    /\ hist' = histClear(lru')
    /\ UNCHANGED <<nav, harvest, ann, NODE_ENV, shutdown, fn>>
    /\ UNCHANGED <<now, CACHE_TTL_MS, CACHE_MAX_ENTRIES, KEEP_BROWSER_OPEN,
                   browserPromise, promises, openPages, run, requests>>

\* time passes
Tick ==
    /\ now < MaxTime
    /\ now' = now + 1
    /\ UNCHANGED <<nav, harvest, ann, NODE_ENV, shutdown, fn>>
    /\ UNCHANGED <<CACHE_TTL_MS, CACHE_MAX_ENTRIES, KEEP_BROWSER_OPEN, lru,
                   browserPromise, promises, openPages, run, requests, hist>>

(***************************************************************************)
(* The cache's recency, expiry and capacity: one request at a time over    *)
(* the keys of LruSearches, each run scraping one video of the feed.       *)
(***************************************************************************)
LruSearches == {<<"f">>, <<"g">>, <<"h">>}

InitLru == Init /\ NODE_ENV = "production" /\ ~KEEP_BROWSER_OPEN

NextLru ==
    \/ \E s \in LruSearches, f \in BOOLEAN : Request(1, s, <<"B">>, 1, FALSE, f)
    \/ \E p \in 1..Len(promises) : BrowserSettles(p, "resolved")
    \/ OpenPage(1)
    \/ Setup(1, TRUE)
    \/ Probe(1, FALSE)
    \/ ExtractOk(1, SiteFeed[run[1].i + 1])
    \/ RunEnds(1)
    \/ \E s \in LruSearches : ClearCacheEntry(s, 1)
    \/ ClearCacheAll
    \/ Tick

SpecLru == InitLru /\ [][NextLru]_vars

(***************************************************************************)
(* The cache as the requests see it: one request at a time with every      *)
(* keyword, filter flag and forceRefresh, on one search phrase in two      *)
(* spellings and a cache of one entry; a run scrapes up to two videos of   *)
(* the feed.                                                               *)
(***************************************************************************)
CacheSearches == {<<"f">>, <<" ", "F">>}

InitCache == Init /\ NODE_ENV = "production" /\ ~KEEP_BROWSER_OPEN /\ CACHE_MAX_ENTRIES = 1

NextCache ==
    \/ \E s \in CacheSearches, k \in Keywords, n \in MaxCounts,
          so \in BOOLEAN, f \in BOOLEAN : Request(1, s, k, n, so, f)
    \/ \E p \in 1..Len(promises) : BrowserSettles(p, "resolved")
    \/ OpenPage(1)
    \/ \E ok \in BOOLEAN : Setup(1, ok)
    \/ Probe(1, FALSE)
    \/ ExtractOk(1, SiteFeed[run[1].i + 1])
    \/ \E o \in {"moved", "stuck"} : Navigate(1, o)
    \/ RunEnds(1)
    \/ ClearCacheAll
    \/ Tick

SpecCache == InitCache /\ [][NextCache]_vars

(***************************************************************************)
(* One run at a time, followed step by step, on pages that may show a      *)
(* captcha, fail to load, fail to extract and fail to advance, in a        *)
(* browser whose launch may fail.                                          *)
(***************************************************************************)
InitRun == Init /\ NODE_ENV = "production" /\ CACHE_TTL_MS = 0 /\ CACHE_MAX_ENTRIES = 1

RunSearches ==
    {<<"f">>, <<" ">>, <<"https://", "evil.com", "/", "f">>,
     <<"https://", "www.tiktok.com", "/", "f">>}

NextRun ==
    \/ \E s \in RunSearches, n \in MaxCounts, f \in BOOLEAN :
          requests < MaxRuns /\ Request(1, s, <<"B">>, n, FALSE, f)
    \/ \E n \in MaxCounts : requests < MaxRuns /\ scrapeSequence(1, n)
    \/ \E p \in 1..Len(promises), o \in {"resolved", "rejected"} :
          BrowserSettles(p, o)
    \/ OpenPage(1)
    \/ AcquireFails(1)
    \/ \E ok \in BOOLEAN : Setup(1, ok)
    \/ \E c \in BOOLEAN : Probe(1, c)
    \/ OperatorInput
    \/ \E v \in Videos : ExtractOk(1, v)
    \/ ExtractThrows(1)
    \/ \E o \in {"moved", "stuck", "threw"} : Navigate(1, o)
    \/ RunEnds(1)

SpecRun == InitRun /\ [][NextRun]_vars

(***************************************************************************)
(* Two runs in flight at once, each scraping one video, on pages that may  *)
(* show a captcha, in a browser whose launch may fail.                     *)
(***************************************************************************)
NextPair ==
    \/ \E r \in Req, f \in BOOLEAN :
          requests < MaxRuns /\ Request(r, <<"f">>, <<"B">>, 1, FALSE, f)
    \/ \E p \in 1..Len(promises), o \in {"resolved", "rejected"} :
          BrowserSettles(p, o)
    \/ \E r \in Req : OpenPage(r)
    \/ \E r \in Req : AcquireFails(r)
    \/ \E r \in Req, ok \in BOOLEAN : Setup(r, ok)
    \/ \E r \in Req, c \in BOOLEAN : Probe(r, c)
    \/ OperatorInput
    \/ \E r \in Req : ExtractOk(r, SiteFeed[run[r].i + 1])
    \/ \E r \in Req : RunEnds(r)

SpecPair == InitRun /\ [][NextPair]_vars

(***************************************************************************)
(* The cache and a failing scrape: one request at a time on one of two     *)
(* phrases, forced or not; the run fails in its setup or returns one video.*)
(***************************************************************************)
FailureSearches == {<<"f">>, <<"g">>}

InitFailure == Init /\ NODE_ENV = "production" /\ ~KEEP_BROWSER_OPEN

NextFailure ==
    \/ \E s \in FailureSearches, f \in BOOLEAN :
          Request(1, s, <<"B">>, 1, FALSE, f)
    \/ \E p \in 1..Len(promises) : BrowserSettles(p, "resolved")
    \/ OpenPage(1)
    \/ \E ok \in BOOLEAN : Setup(1, ok)
    \/ Probe(1, FALSE)
    \/ ExtractOk(1, SiteFeed[run[1].i + 1])
    \/ RunEnds(1)
    \/ Tick

SpecFailure == InitFailure /\ [][NextFailure]_vars

(***************************************************************************)
(* Two requests for one key in flight together: neither is forced, and an  *)
(* extraction may be lost, so that the two runs can return different items *)
(* at different times.                                                     *)
(***************************************************************************)
InitMiss == Init /\ NODE_ENV = "production" /\ ~KEEP_BROWSER_OPEN

NextMiss ==
    \/ \E r \in Req : Request(r, <<"f">>, <<"B">>, 1, FALSE, FALSE)
    \/ \E p \in 1..Len(promises) : BrowserSettles(p, "resolved")
    \/ \E r \in Req : OpenPage(r)
    \/ \E r \in Req : Setup(r, TRUE)
    \/ \E r \in Req : Probe(r, FALSE)
    \/ \E r \in Req : ExtractOk(r, SiteFeed[run[r].i + 1])
    \/ \E r \in Req : ExtractThrows(r)
    \/ \E r \in Req : RunEnds(r)
    \/ Tick

SpecMiss == InitMiss /\ [][NextMiss]_vars

(***************************************************************************)
(* The cache and a scrape that returns little: one request at a time on    *)
(* one phrase, for no, one or two videos; the run may lose extractions or  *)
(* stop at a navigation dead end.                                          *)
(***************************************************************************)
OutcomeCounts == {0, 1, 2}

InitOutcome == Init /\ NODE_ENV = "production" /\ ~KEEP_BROWSER_OPEN

NextOutcome ==
    \/ \E n \in OutcomeCounts : Request(1, <<"f">>, <<"B">>, n, FALSE, FALSE)
    \/ \E p \in 1..Len(promises) : BrowserSettles(p, "resolved")
    \/ OpenPage(1)
    \/ Setup(1, TRUE)
    \/ Probe(1, FALSE)
    \/ ExtractOk(1, SiteFeed[run[1].i + 1])
    \/ ExtractThrows(1)
    \/ \E o \in {"moved", "stuck"} : Navigate(1, o)
    \/ RunEnds(1)
    \/ Tick

SpecOutcome == InitOutcome /\ [][NextOutcome]_vars

(***************************************************************************)
(* Shutdown: onModuleDestroy may be called at any time, with a run in      *)
(* flight or not, in every mode of the process.                            *)
(***************************************************************************)
shouldClose_anyMode(bp, env) == bp # 0

\* if (this.browserPromise && process.env.NODE_ENV === 'production')
shouldClose(bp, env) == bp # 0 /\ env = "production"

\* onModuleDestroy(), up to its first await
onModuleDestroy ==
    /\ shutdown.pc = "running"
    /\ shutdown' = IF shouldClose(browserPromise, NODE_ENV)
                   THEN [shutdown EXCEPT !.pc = "awaitBrowser",
                                         !.promise = browserPromise]
                   ELSE [shutdown EXCEPT !.pc = "destroyed"]
    /\ UNCHANGED <<now, CACHE_TTL_MS, CACHE_MAX_ENTRIES, KEEP_BROWSER_OPEN, lru,
                   browserPromise, promises, openPages, run, requests, hist,
                   nav, harvest, ann, NODE_ENV, fn>>

\* const browser = await this.browserPromise; await browser.close().catch(..)
DestroyCloses ==
    /\ shutdown.pc = "awaitBrowser"
    /\ promises[shutdown.promise] # "pending"
    /\ shutdown' = IF promises[shutdown.promise] = "resolved"
                   THEN [shutdown EXCEPT !.pc = "destroyed",
                             !.closed = shutdown.closed \cup {shutdown.promise}]
                   ELSE [shutdown EXCEPT !.pc = "failed"]
    /\ UNCHANGED <<now, CACHE_TTL_MS, CACHE_MAX_ENTRIES, KEEP_BROWSER_OPEN, lru,
                   browserPromise, promises, openPages, run, requests, hist,
                   nav, harvest, ann, NODE_ENV, fn>>

InitShutdown == Init /\ CACHE_TTL_MS = 0 /\ CACHE_MAX_ENTRIES = 1

NextShutdown ==
    \/ /\ shutdown.pc = "running"
       /\ requests < MaxRuns
       /\ Request(1, <<"f">>, <<"B">>, 1, FALSE, FALSE)
    \/ \E p \in 1..Len(promises), o \in {"resolved", "rejected"} :
          BrowserSettles(p, o)
    \/ OpenPage(1)
    \/ AcquireFails(1)
    \/ \E ok \in BOOLEAN : Setup(1, ok)
    \/ Probe(1, FALSE)
    \/ ExtractOk(1, SiteFeed[run[1].i + 1])
    \/ ExtractThrows(1)
    \/ RunEnds(1)
    \/ onModuleDestroy
    \/ DestroyCloses

SpecShutdown == InitShutdown /\ [][NextShutdown]_vars

(***************************************************************************)
(* The cache under two requests in flight at once, on two keys: every      *)
(* lruGet and lruSet runs between two awaits of its request.               *)
(***************************************************************************)
SharedSearches == {<<"f">>, <<"g">>}

InitShared == Init /\ NODE_ENV = "production" /\ ~KEEP_BROWSER_OPEN

NextShared ==
    \/ \E r \in Req, s \in SharedSearches :
          Request(r, s, <<"B">>, 1, FALSE, FALSE)
    \/ \E p \in 1..Len(promises) : BrowserSettles(p, "resolved")
    \/ \E r \in Req : OpenPage(r)
    \/ \E r \in Req : Setup(r, TRUE)
    \/ \E r \in Req : Probe(r, FALSE)
    \/ \E r \in Req : ExtractOk(r, SiteFeed[run[r].i + 1])
    \/ \E r \in Req : RunEnds(r)
    \/ Tick

SpecShared == InitShared /\ [][NextShared]_vars

(***************************************************************************)
(* goToNextVideo, one call at a time, on a page whose URL, media source    *)
(* and caption the site may change between two polls.  Time is counted in  *)
(* milliseconds from the call, and only the waits of the code take time.   *)
(***************************************************************************)
RungMs == 2500
PollMs == 200
EnterSettleMs == 300
LandSettleMs == 500

isVideoUrl(u) == u \in {"/video/1", "/video/2"}

truthy(s) == s \notin {"<null>", ""}

hasChanged(page, before) ==
    \/ page.url # before.url
    \/ truthy(before.src) /\ truthy(page.src) /\ page.src # before.src
    \/ truthy(page.caption) /\ page.caption # before.caption

actions ==
    <<"ArrowDown", "ArrowRight", "PageDown", "wheel", "Next", "clickArrowDown">>

\* the call up to the ladder: Enter when the page is not a video page, the
\* snapshot of the three signals, and the deadline
goToNextVideo(page, timeoutMs) ==
    /\ nav.pc = "idle"
    /\ LET enter == ~isVideoUrl(page.url)
           t0 == IF enter THEN EnterSettleMs ELSE 0
       IN  nav' = [IdleNav EXCEPT !.pc = "ladder", !.timeoutMs = timeoutMs,
                       !.t = t0, !.attempts = IF enter THEN 1 ELSE 0,
                       !.page = page, !.before = page,
                       !.deadline = t0 + timeoutMs]
    /\ UNCHANGED <<now, CACHE_TTL_MS, CACHE_MAX_ENTRIES, KEEP_BROWSER_OPEN, lru,
                   browserPromise, promises, openPages, run, requests, hist,
                   harvest, ann,
                   NODE_ENV, shutdown, fn>>

NavAct_uncounted ==
    /\ nav.pc = "ladder"
    /\ nav' = [nav EXCEPT !.pc = "poll", !.rung = @ + 1,
                   !.invoked = Append(@, actions[nav.rung + 1]),
                   !.localDeadline = nav.t + RungMs]
    /\ UNCHANGED <<now, CACHE_TTL_MS, CACHE_MAX_ENTRIES, KEEP_BROWSER_OPEN, lru,
                   browserPromise, promises, openPages, run, requests, hist,
                   harvest, ann,
                   NODE_ENV, shutdown, fn>>

\* the next action of the ladder is invoked, and its poll begins
NavAct ==
    /\ nav.pc = "ladder"
    /\ nav' = [nav EXCEPT !.pc = "poll", !.rung = @ + 1, !.attempts = @ + 1,
                   !.invoked = Append(@, actions[nav.rung + 1]),
                   !.localDeadline = nav.t + RungMs]
    /\ UNCHANGED <<now, CACHE_TTL_MS, CACHE_MAX_ENTRIES, KEEP_BROWSER_OPEN, lru,
                   browserPromise, promises, openPages, run, requests, hist,
                   harvest, ann,
                   NODE_ENV, shutdown, fn>>

NavPoll_keepsClimbing ==
    /\ nav.pc = "poll"
    /\ nav' =
          IF nav.t < nav.localDeadline
          THEN IF hasChanged(nav.page, nav.before)
               THEN IF nav.rung = Len(actions)
                    THEN [nav EXCEPT !.pc = "returned", !.moved = TRUE]
                    ELSE [nav EXCEPT !.pc = "ladder", !.moved = TRUE]
               ELSE [nav EXCEPT !.t = @ + PollMs]
          ELSE IF nav.t >= nav.deadline \/ nav.rung = Len(actions)
               THEN [nav EXCEPT !.pc = "returned"]
               ELSE [nav EXCEPT !.pc = "ladder"]
    /\ UNCHANGED <<now, CACHE_TTL_MS, CACHE_MAX_ENTRIES, KEEP_BROWSER_OPEN, lru,
                   browserPromise, promises, openPages, run, requests, hist,
                   harvest, ann,
                   NODE_ENV, shutdown, fn>>

\* one turn of the poll, or the test that ends the rung
NavPoll ==
    /\ nav.pc = "poll"
    /\ nav' =
          IF nav.t < nav.localDeadline
          THEN IF hasChanged(nav.page, nav.before)
               THEN IF ~isVideoUrl(nav.page.url)
                    THEN [nav EXCEPT !.pc = "returned", !.moved = TRUE,
                              !.attempts = @ + 1, !.t = @ + LandSettleMs]
                    ELSE [nav EXCEPT !.pc = "returned", !.moved = TRUE]
               ELSE [nav EXCEPT !.t = @ + PollMs]
          ELSE IF nav.t >= nav.deadline \/ nav.rung = Len(actions)
               THEN [nav EXCEPT !.pc = "returned"]
               ELSE [nav EXCEPT !.pc = "ladder"]
    /\ UNCHANGED <<now, CACHE_TTL_MS, CACHE_MAX_ENTRIES, KEEP_BROWSER_OPEN, lru,
                   browserPromise, promises, openPages, run, requests, hist,
                   harvest, ann,
                   NODE_ENV, shutdown, fn>>

\* page.evaluate rejects inside hasChanged: nothing catches it
NavEvaluateThrows ==
    /\ nav.pc = "poll"
    /\ nav.t < nav.localDeadline
    /\ nav' = [nav EXCEPT !.pc = "threw"]
    /\ UNCHANGED <<now, CACHE_TTL_MS, CACHE_MAX_ENTRIES, KEEP_BROWSER_OPEN, lru,
                   browserPromise, promises, openPages, run, requests, hist,
                   harvest, ann,
                   NODE_ENV, shutdown, fn>>

\* the site changes one of the three signals of the page
PageChanges(p) ==
    /\ nav.pc = "poll"
    /\ p # nav.page
    /\ \/ p.src = nav.page.src /\ p.caption = nav.page.caption
       \/ p.url = nav.page.url /\ p.caption = nav.page.caption
       \/ p.url = nav.page.url /\ p.src = nav.page.src
    /\ nav' = [nav EXCEPT !.page = p, !.changed = TRUE]
    /\ UNCHANGED <<now, CACHE_TTL_MS, CACHE_MAX_ENTRIES, KEEP_BROWSER_OPEN, lru,
                   browserPromise, promises, openPages, run, requests, hist,
                   harvest, ann,
                   NODE_ENV, shutdown, fn>>

InitNav == Init /\ NODE_ENV = "production" /\ CACHE_TTL_MS = 0 /\ CACHE_MAX_ENTRIES = 1 /\ ~KEEP_BROWSER_OPEN

NextNav ==
    \/ \E p \in Pages, T \in NavTimeouts : goToNextVideo(p, T)
    \/ NavAct
    \/ NavPoll
    \/ NavEvaluateThrows
    \/ \E p \in Pages : PageChanges(p)

SpecNav == InitNav /\ [][NextNav]_vars

(***************************************************************************)
(* The scroll loop of extractComments, one call at a time, on a page that  *)
(* renders more comment nodes as it pleases.  Time is counted in           *)
(* milliseconds from the moment the deadline is set, and only the waits of *)
(* the code take time.                                                     *)
(***************************************************************************)
MaxNodes == 3

SettleMs == 350
StagnationMs == 300

Min(a, b) == IF a < b THEN a ELSE b

\* the textContent of the comment nodes a page of the model renders
NodeTexts == {<<" ">>, <<"a">>, <<"b", " ", " ", "c">>}

\* .replace(/\s+/g, ' ')
RECURSIVE collapseSpaces(_)
collapseSpaces(t) ==
    IF Len(t) < 2 THEN t
    ELSE IF t[1] = " " /\ t[2] = " " THEN collapseSpaces(Tail(t))
         ELSE <<t[1]>> \o collapseSpaces(Tail(t))

\* (t.textContent || '').replace(/\s+/g, ' ').trim()
commentText(t) == trim(collapseSpaces(t))

\* for (const t of textNodes): a node without text is skipped, the others are
\* pushed until results.length >= max
RECURSIVE collectFrom(_, _, _)
collectFrom(textNodes, max, results) ==
    IF textNodes = <<>> THEN results
    ELSE LET text == commentText(Head(textNodes))
             pushed == Append(results, [username |-> "unknown", text |-> text])
         IN  IF text = <<>> THEN collectFrom(Tail(textNodes), max, results)
             ELSE IF Len(pushed) >= max THEN pushed
                  ELSE collectFrom(Tail(textNodes), max, pushed)

extractItems_unbounded(textNodes, max) ==
    collectFrom(textNodes, Len(textNodes) + 1, <<>>)

\* the page.evaluate after the loop: results.slice(0, max)
extractItems(textNodes, max) ==
    LET results == collectFrom(textNodes, max, <<>>)
    IN  SubSeq(results, 1, Min(max, Len(results)))

\* the call up to the loop: the container is found or not, the deadline is set
extractComments(limit, hardTimeoutMs, containerSel, rendered) ==
    /\ harvest.pc = "idle"
    /\ harvest' = [IdleHarvest EXCEPT !.pc = "loop", !.limit = limit,
                       !.hardTimeoutMs = hardTimeoutMs,
                       !.containerSel = containerSel,
                       !.deadline = hardTimeoutMs, !.nodes = rendered]
    /\ UNCHANGED <<now, CACHE_TTL_MS, CACHE_MAX_ENTRIES, KEEP_BROWSER_OPEN, lru,
                   browserPromise, promises, openPages, run, requests, hist,
                   nav, ann,
                   NODE_ENV, shutdown, fn>>

\* the loop's test, and in the loop the scroll and the settle wait
HarvestScroll ==
    /\ harvest.pc = "loop"
    /\ harvest' = IF harvest.t < harvest.deadline
                  THEN [harvest EXCEPT !.pc = "count", !.t = @ + SettleMs]
                  ELSE [harvest EXCEPT !.pc = "collect"]
    /\ UNCHANGED <<now, CACHE_TTL_MS, CACHE_MAX_ENTRIES, KEEP_BROWSER_OPEN, lru,
                   browserPromise, promises, openPages, run, requests, hist,
                   nav, ann,
                   NODE_ENV, shutdown, fn>>

\* the count of the rendered nodes, the break, the stagnation wait
HarvestCount ==
    /\ harvest.pc = "count"
    /\ LET count == Len(harvest.nodes)
       IN  harvest' =
              IF count >= harvest.limit
              THEN [harvest EXCEPT !.pc = "collect", !.count = count]
              ELSE IF count > 0 /\ count = harvest.lastCount
                      /\ harvest.containerSel
                   THEN [harvest EXCEPT !.pc = "loop", !.count = count,
                             !.lastCount = count, !.t = @ + StagnationMs]
                   ELSE [harvest EXCEPT !.pc = "loop", !.count = count,
                             !.lastCount = count]
    /\ UNCHANGED <<now, CACHE_TTL_MS, CACHE_MAX_ENTRIES, KEEP_BROWSER_OPEN, lru,
                   browserPromise, promises, openPages, run, requests, hist,
                   nav, ann,
                   NODE_ENV, shutdown, fn>>

\* after the loop the first limit nodes are returned
HarvestCollect ==
    /\ harvest.pc = "collect"
    /\ harvest' = [harvest EXCEPT !.pc = "returned",
                       !.items = extractItems(harvest.nodes, harvest.limit)]
    /\ UNCHANGED <<now, CACHE_TTL_MS, CACHE_MAX_ENTRIES, KEEP_BROWSER_OPEN, lru,
                   browserPromise, promises, openPages, run, requests, hist,
                   nav, ann,
                   NODE_ENV, shutdown, fn>>

\* the page renders one more comment node
HarvestRender(text) ==
    /\ harvest.pc \in {"loop", "count", "collect"}
    /\ Len(harvest.nodes) < MaxNodes
    /\ harvest' = [harvest EXCEPT !.nodes = Append(@, text)]
    /\ UNCHANGED <<now, CACHE_TTL_MS, CACHE_MAX_ENTRIES, KEEP_BROWSER_OPEN, lru,
                   browserPromise, promises, openPages, run, requests, hist,
                   nav, ann,
                   NODE_ENV, shutdown, fn>>

NextHarvest ==
    \/ \E l \in HarvestLimits, T \in HardTimeouts, c \in BOOLEAN,
          n \in {<<>>} \cup {<<t>> : t \in NodeTexts} : extractComments(l, T, c, n)
    \/ HarvestScroll
    \/ HarvestCount
    \/ HarvestCollect
    \/ \E t \in NodeTexts : HarvestRender(t)

SpecHarvest == InitNav /\ [][NextHarvest]_vars

(***************************************************************************)
(* The annotation of scrapeAnnotateAndCache as a function: a list of items *)
(* is annotated with one keyword, the result with a second keyword, and    *)
(* the list itself with the second keyword.                                *)
(***************************************************************************)
MaxItems == 2

AnnKeywords == {<<"c", "a", "f", "e">>, <<"B">>, <<"x">>, <<"acute">>, <<"a">>}

ItemLists == UNION {[1..n -> Videos] : n \in 0..MaxItems}

\* raw.items after raw.items.map(...): map builds a new array of new objects
itemsAfterMap(items, keyword) == items

Annotate(items, kw1, kw2, showOnly) ==
    /\ ann.pc = "idle"
    /\ LET once == annotate(items, kw1)
           matching == filterItems(once, TRUE)
       IN  ann' = [pc |-> "done", items |-> items, kw1 |-> kw1, kw2 |-> kw2,
                   once |-> once, twice |-> annotate(once, kw2),
                   direct |-> annotate(items, kw2),
                   source |-> itemsAfterMap(itemsAfterMap(items, kw1), kw2),
                   showOnly |-> showOnly,
                   filtered |-> filterItems(once, showOnly),
                   matching |-> matching,
                   again |-> filterItems(matching, TRUE)]
    /\ UNCHANGED <<now, CACHE_TTL_MS, CACHE_MAX_ENTRIES, KEEP_BROWSER_OPEN, lru,
                   browserPromise, promises, openPages, run, requests, hist,
                   nav, harvest,
                   NODE_ENV, shutdown, fn>>

NextAnnotate ==
    \E items \in ItemLists, kw1 \in AnnKeywords, kw2 \in AnnKeywords,
       showOnly \in BOOLEAN :
        Annotate(items, kw1, kw2, showOnly)

SpecAnnotate == InitNav /\ [][NextAnnotate]_vars

(***************************************************************************)
(* extractFromPage as a function of what its sources give: the oEmbed      *)
(* answer, the page URL, and the elements, meta tags and title of the      *)
(* document.  undefined and null are Null; '' is <<>>.                     *)
(***************************************************************************)
\* a ?? b
orElse(a, b) == IF a = Null THEN b ELSE a

\* a value used as a condition: null, undefined and '' are false
truthyText(a) == a # Null /\ a # <<>>

\* s.replace(/^@/, '')
stripAt(s) == IF s # <<>> /\ Head(s) = "@" THEN Tail(s) ELSE s

PageUrls ==
    { <<"https://www.tiktok.com", "/@", "u", "/video/", "1">>,
      <<"https://www.tiktok.com", "/foryou">> }

\* normalizeVideoUrl(raw): the canonical video URL, or null
normalizeVideoUrl(raw) ==
    IF Len(raw) = 5 /\ raw[2] = "/@" /\ raw[4] = "/video/"
    THEN <<"https://www.tiktok.com", "/@", raw[3], "/video/", raw[5]>>
    ELSE Null

\* currentUrl.match(/tiktok\.com\/@([^/]+)/): the handle in the URL, or null
usernameFromUrl(currentUrl) ==
    IF Len(currentUrl) >= 3 /\ currentUrl[2] = "/@" THEN <<currentUrl[3]>>
    ELSE Null

\* what fetchOEmbed can resolve to: null (<<>> here), or the JSON of the
\* answer (<<json>>)
OEmbedFields == {Null, <<>>}

OEmbeds ==
    {<<>>} \cup
    { <<o>> : o \in
        [title : OEmbedFields \cup {<<"o">>},
         author_name : OEmbedFields \cup {<<"@", "n">>},
         author_url : OEmbedFields \cup {<<"https://www.tiktok.com", "/@", "n">>}] }

\* the elements the caption selectors find, in the order of the selectors:
\* Null where a selector finds none, else the trimmed text of the element
CaptionElements == [1..2 -> {Null, <<>>, <<"d">>}]

\* for (const s of captionSelectors) { const el = safe(s);
\*   if (el) { caption = (el.textContent || '').trim(); if (caption) break; } }
RECURSIVE domCaption(_, _)
domCaption(els, caption) ==
    IF els = <<>> THEN caption
    ELSE IF Head(els) = Null THEN domCaption(Tail(els), caption)
    ELSE IF Head(els) # <<>> THEN Head(els)
    ELSE domCaption(Tail(els), Head(els))

\* the first element the username selectors find: none (<<>>), or one (<<el>>)
\* with its trimmed text and its href attribute
AuthorLinks ==
    {<<>>} \cup
    { <<el>> : el \in [txt : {<<>>, <<"@", "w">>}, href : {<<>>, <<"/@", "w">>}] }

\* if (txt && !/^profile$/i.test(txt)) username = txt.replace(/^@/, '')
domUsername(el) ==
    IF el # <<>> /\ truthyText(el[1].txt) THEN stripAt(el[1].txt) ELSE Null

\* if (href) authorUrl = href.startsWith('http') ? href : `https://www.tiktok.com${href}`
domAuthorUrl(el) ==
    IF el # <<>> /\ truthyText(el[1].href)
    THEN <<"https://www.tiktok.com">> \o el[1].href
    ELSE Null

\* meta og:title content, document.title (always a string), the descriptions
OgContents == {Null, <<>>, <<"t">>}
DocumentTitles == {<<>>, <<"T">>}
MetaDescs == {Null, <<>>, <<"m">>}

\* the record extractFromPage returns, but for videoSrc and comments
extractFields(oembed, currentUrl, captionEls, link, ogContent, docTitle, metaDesc) ==
    LET normalized == normalizeVideoUrl(currentUrl)
        oe(f) == IF oembed = <<>> THEN Null ELSE oembed[1][f]
        domData == [caption |-> domCaption(captionEls, Null),
                    username |-> domUsername(link),
                    authorUrl |-> domAuthorUrl(link),
                    ogTitle |-> orElse(ogContent, docTitle),
                    metaDesc |-> metaDesc]
        caption == orElse(oe("title"), orElse(domData.caption, domData.metaDesc))
        username ==
            orElse(IF truthyText(oe("author_name")) THEN stripAt(oe("author_name"))
                   ELSE Null,
                   orElse(usernameFromUrl(currentUrl),
                          IF truthyText(domData.username)
                          THEN stripAt(domData.username) ELSE Null))
        authorUrl ==
            orElse(oe("author_url"),
                   orElse(IF truthyText(username)
                          THEN <<"https://www.tiktok.com", "/@">> \o username
                          ELSE Null,
                          domData.authorUrl))
        title == orElse(domData.ogTitle,
                        orElse(caption,
                               IF truthyText(normalized) THEN normalized
                               ELSE currentUrl))
    IN  [title |-> title, description |-> caption, caption |-> caption,
         username |-> username, authorUrl |-> authorUrl]

\* a page is shown: its URL and what its document holds
PageShown(currentUrl, captionEls, link, ogContent, docTitle, metaDesc) ==
    /\ fn.pc = "idle"
    /\ fn' = [pc |-> "shown", name |-> "extractFromPage",
              arg |-> [oembed |-> <<>>, currentUrl |-> currentUrl,
                       captionEls |-> captionEls, link |-> link,
                       ogContent |-> ogContent, docTitle |-> docTitle,
                       metaDesc |-> metaDesc],
              result |-> <<>>]
    /\ UNCHANGED <<now, CACHE_TTL_MS, CACHE_MAX_ENTRIES, KEEP_BROWSER_OPEN, lru,
                   browserPromise, promises, openPages, run, requests, hist,
                   nav, harvest, ann, NODE_ENV, shutdown>>

\* extractFromPage(page), fetchOEmbed resolving to oembed
extractFromPage(oembed) ==
    /\ fn.pc = "shown"
    /\ fn' = [fn EXCEPT !.pc = "done", !.arg.oembed = oembed,
                        !.result = extractFields(oembed, fn.arg.currentUrl,
                                       fn.arg.captionEls, fn.arg.link,
                                       fn.arg.ogContent, fn.arg.docTitle,
                                       fn.arg.metaDesc)]
    /\ UNCHANGED <<now, CACHE_TTL_MS, CACHE_MAX_ENTRIES, KEEP_BROWSER_OPEN, lru,
                   browserPromise, promises, openPages, run, requests, hist,
                   nav, harvest, ann, NODE_ENV, shutdown>>

NextFields ==
    \/ \E currentUrl \in PageUrls, captionEls \in CaptionElements,
          link \in AuthorLinks, ogContent \in OgContents,
          docTitle \in DocumentTitles, metaDesc \in MetaDescs :
           PageShown(currentUrl, captionEls, link, ogContent, docTitle, metaDesc)
    \/ \E oembed \in OEmbeds : extractFromPage(oembed)

SpecFields == InitNav /\ [][NextFields]_vars

(***************************************************************************)
(* buildSearchUrl as a function: phrases and URLs of up to MaxChars path   *)
(* characters, with blanks around them or not.                             *)
(***************************************************************************)
MaxChars == 2

Hosts == {"www.tiktok.com", "tiktok.com", "tiktok.com.evil.net", "evil.com"}

Phrases == UNION {[1..n -> {" ", "f", "/"}] : n \in 0..MaxChars}

SearchInputs ==
    Phrases \cup
    { <<scheme, host>> \o path :
        scheme \in {"https://", "http://"}, host \in Hosts, path \in Phrases }

\* buildSearchUrl(input) is called
callBuildSearchUrl(input) ==
    /\ fn.pc = "idle"
    /\ fn' = [pc |-> "done", name |-> "buildSearchUrl", arg |-> input,
              result |-> buildSearchUrl(input)]
    /\ UNCHANGED <<now, CACHE_TTL_MS, CACHE_MAX_ENTRIES, KEEP_BROWSER_OPEN, lru,
                   browserPromise, promises, openPages, run, requests, hist,
                   nav, harvest, ann, NODE_ENV, shutdown>>

NextUrl == \E input \in SearchInputs : callBuildSearchUrl(input)

SpecUrl == InitNav /\ [][NextUrl]_vars

(***************************************************************************)
(* The whole system: every request, two at a time, every outcome of the    *)
(* browser and of the pages, the cache's maintenance calls, the clock, the *)
(* navigator and the harvester.                                            *)
(***************************************************************************)
Next ==
    \/ \E r \in Req, s \in Searches, k \in Keywords, n \in MaxCounts,
          so \in BOOLEAN, f \in BOOLEAN : Request(r, s, k, n, so, f)
    \/ \E p \in 1..Len(promises), o \in {"resolved", "rejected"} :
          BrowserSettles(p, o)
    \/ \E r \in Req : OpenPage(r)
    \/ \E r \in Req : AcquireFails(r)
    \/ \E r \in Req, ok \in BOOLEAN : Setup(r, ok)
    \/ \E r \in Req, c \in BOOLEAN : Probe(r, c)
    \/ OperatorInput
    \/ \E r \in Req, v \in Videos : ExtractOk(r, v)
    \/ \E r \in Req : ExtractThrows(r)
    \/ \E r \in Req, o \in {"moved", "stuck", "threw"} : Navigate(r, o)
    \/ \E r \in Req : RunEnds(r)
    \/ \E s \in Searches, n \in MaxCounts : ClearCacheEntry(s, n)
    \/ ClearCacheAll
    \/ \E r \in Req, n \in MaxCounts : scrapeSequence(r, n)
    \/ Tick
    \/ NextNav
    \/ NextHarvest
    \/ NextAnnotate
    \/ NextFields
    \/ NextUrl
    \/ onModuleDestroy
    \/ DestroyCloses

Spec == Init /\ [][Next]_vars

(***************************************************************************)
(* Properties.                                                             *)
(***************************************************************************)
\* this step is the arrival of a request in slot r
RequestStep(r) == requests' = requests + 1 /\ run'[r].id = requests'

\* this step is the lruGet of the request arriving in slot r
GetStep(r) == RequestStep(r) /\ ~run'[r].forceRefresh

\* this step is the lruSet of the run of slot r, which returned
SetStep(r) == run[r].pc = "closing" /\ run'[r].pc = "done"

\* items without their keywordMentioned field
withoutFlag(items) ==
    [j \in 1..Len(items) |->
        [f \in DOMAIN items[j] \ {"keywordMentioned"} |-> items[j][f]]]

\* the request arriving in slot r is not forced, its key has a fresh entry, and
\* it is answered from the cache without a run, a launch or a page
AnsweredFromCache(r) ==
    /\ run'[r].pc = "done"
    /\ run'[r].response.fromCache
    /\ run'[r].response.metrics = <<>>
    /\ openPages' = openPages
    /\ promises' = promises
    /\ browserPromise' = browserPromise

WarmRequest(r) ==
    /\ GetStep(r)
    /\ FreshAt(lruKeyRaw(run'[r].search, run'[r].maxCount))

\* C1 as stated: a request without forceRefresh whose key has a fresh entry is
\* answered from the cache (fromCache, no run, metrics null) and its items are
\* the stored raw items in the same order, differing only in keywordMentioned
C1_Original ==
    [][\A r \in Req : WarmRequest(r) =>
          /\ AnsweredFromCache(r)
          /\ withoutFlag(run'[r].response.items) =
                 MapGet(lru, lruKeyRaw(run'[r].search, run'[r].maxCount)).items
      ]_vars

\* C1 amended: ... its items are the stored raw items in the same order, each
\* with its recomputed keywordMentioned; with showVideoOnlyWithMatchKeyword set,
\* only those whose flag is true
C1_CacheHit ==
    [][\A r \in Req : WarmRequest(r) =>
          LET stored ==
                  MapGet(lru, lruKeyRaw(run'[r].search, run'[r].maxCount)).items
              kept == IF run'[r].showOnly
                      THEN SelectSeq(stored,
                                     LAMBDA v : mentioned(v, run'[r].keyword))
                      ELSE stored
              got == run'[r].response.items
          IN  /\ AnsweredFromCache(r)
              /\ withoutFlag(got) = kept
              /\ \A j \in 1..Len(got) :
                    got[j].keywordMentioned = mentioned(kept[j], run'[r].keyword)
      ]_vars

\* a hit whose filter dropped one of the two stored items
C1_Witness ==
    \E r \in Req :
        /\ run[r].pc = "done"
        /\ run[r].response.fromCache
        /\ run[r].showOnly
        /\ MapHas(lru, run[r].rawKey)
        /\ Len(MapGet(lru, run[r].rawKey).items) = 2
        /\ Len(run[r].response.items) = 1

\* C2: eviction is in least-recently-used order, a use being a set or a get that
\* hits: a set keeps, of the stored keys and its own, the CACHE_MAX_ENTRIES most
\* recently used and removes exactly the others
C2_LruOrder ==
    [][\A r \in Req : SetStep(r) =>
          LET key == run[r].rawKey
              cand == MapKeys(lru) \cup {key}
              kept == MapKeys(lru')
              order == MovedLast(hist.used, key)
          IN  /\ {hist.used[i] : i \in 1..Len(hist.used)} = MapKeys(lru)
              /\ kept \subseteq cand
              /\ Cardinality(kept) =
                     IF Cardinality(cand) < CACHE_MAX_ENTRIES
                     THEN Cardinality(cand) ELSE CACHE_MAX_ENTRIES
              /\ \A e \in cand \ kept, k \in kept : Before(order, e, k)
      ]_vars

\* a set has evicted an entry that was inserted after one it kept
C2_Witness == hist.note = "evictedNewer" /\ Len(lru) = 2

\* C3: expiry is measured from the insertion time: a get returns the entry while
\* now - (time of its set) <= TTL and otherwise returns null and removes it; a hit
\* leaves createdAt as the set stamped it; with TTL = 0 nothing expires
C3_TtlFromInsertion ==
    [][/\ \A r \in Req :
            (GetStep(r) /\ MapHas(lru, run'[r].rawKey)) =>
                LET key == run'[r].rawKey
                    e == MapGet(lru, key)
                IN  IF CACHE_TTL_MS > 0 /\ now - e.createdAt > CACHE_TTL_MS
                    THEN /\ run'[r].pc = "awaitBrowser"
                         /\ ~MapHas(lru', key)
                    ELSE /\ run'[r].pc = "done"
                         /\ run'[r].response.fromCache
                         /\ MapHas(lru', key)
       /\ \A i \in 1..Len(lru') :
            IF \E r \in Req : SetStep(r) /\ run[r].rawKey = lru'[i].key
            THEN lru'[i].createdAt = now
            ELSE /\ MapHas(lru, lru'[i].key)
                 /\ lru'[i].createdAt = MapGet(lru, lru'[i].key).createdAt
      ]_vars

\* a get found an entry older than the TTL, which gets had hit since its set,
\* and removed it
C3_Witness ==
    /\ hist.note = "expiredAfterHit"
    /\ \E r \in Req : run[r].pc = "awaitBrowser" /\ ~MapHas(lru, run[r].rawKey)

\* C4: the number of stored entries never exceeds CACHE_MAX_ENTRIES (and no key
\* is stored twice)
C4_SizeBound ==
    /\ Len(lru) <= CACHE_MAX_ENTRIES
    /\ Cardinality(MapKeys(lru)) = Len(lru)

\* a set on a full cache has evicted
C4_Witness == hist.note = "evicted" /\ Len(lru) = CACHE_MAX_ENTRIES

\* C5: no stored item carries keywordMentioned, and a stored entry holds exactly
\* the items its run scraped, whatever keywords and filter flags the requests had
C5_RawOnly ==
    [][\A i \in 1..Len(lru') :
          /\ \A j \in 1..Len(lru'[i].items) :
                "keywordMentioned" \notin DOMAIN lru'[i].items[j]
          /\ IF \E r \in Req : SetStep(r) /\ run[r].rawKey = lru'[i].key
             THEN \E r \in Req : SetStep(r) /\ lru'[i].items = run[r].items
             ELSE /\ MapHas(lru, lru'[i].key)
                  /\ lru'[i].items = MapGet(lru, lru'[i].key).items
      ]_vars

\* a run has been cached and answered with an item flagged true, and the stored
\* items are still the two raw items
C5_Witness ==
    \E r \in Req :
        /\ run[r].pc = "done"
        /\ ~run[r].response.fromCache
        /\ \E j \in 1..Len(run[r].response.items) :
              run[r].response.items[j].keywordMentioned
        /\ MapHas(lru, run[r].rawKey)
        /\ MapGet(lru, run[r].rawKey).items = run[r].items
        /\ Len(run[r].items) = 2

\* C6: a request with forceRefresh does not read the cache and starts a run; when
\* the run returns, the answer has fromCache = false and the key's entry is the
\* most recently used, holds the new items and is stamped with the time of the set
C6_ForceRefresh ==
    [][\A r \in Req :
          /\ (RequestStep(r) /\ run'[r].forceRefresh) =>
                /\ lru' = lru
                /\ run'[r].pc = "awaitBrowser"
          /\ (SetStep(r) /\ run[r].forceRefresh) =>
                /\ ~run'[r].response.fromCache
                /\ lru' # <<>>
                /\ lru'[Len(lru')].key = run[r].rawKey
                /\ lru'[Len(lru')].items = run[r].items
                /\ lru'[Len(lru')].createdAt = now
      ]_vars

\* a forced request that arrived on a fresh entry has replaced it, stamped later
\* than the one it replaced, behind another stored key
C6_Witness ==
    \E r \in Req :
        /\ run[r].pc = "done"
        /\ run[r].forceRefresh
        /\ run[r].sawFresh
        /\ hist.note = "replacedOlder"
        /\ Len(lru) = 2
        /\ lru[2].key = run[r].rawKey
        /\ lru[2].createdAt = now

\* the positions of a run between opening its page and the end of its finally
InTry == {"setup", "probe", "captchaWait", "extract", "navigate", "closing"}

\* C7: a run that has ended, by returning or by throwing, has closed the page it
\* opened, unless KEEP_BROWSER_OPEN is set, and then its page is left open: with
\* the override off the open pages are those of the runs still going
C7_PageClosed ==
    /\ ~KEEP_BROWSER_OPEN =>
          \A p \in openPages : \E r \in Req : run[r].id = p /\ run[r].pc \in InTry
    /\ KEEP_BROWSER_OPEN =>
          \A r \in Req :
              (run[r].pc \in {"done", "failed"} /\ run[r].browser # 0) =>
                  run[r].id \in openPages
    /\ \A r \in Req : run[r].pc \in InTry => run[r].id \in openPages

\* a run that opened a page and then threw has ended, and its page is closed
C7_Witness ==
    /\ ~KEEP_BROWSER_OPEN
    /\ \E r \in Req :
          /\ run[r].pc = "failed"
          /\ run[r].browser # 0
          /\ run[r].id \notin openPages

\* C8: puppeteer.launch is called at most once, and every run gets the browser
\* of that one launch
C8_SingleLaunch ==
    /\ Len(promises) <= 1
    /\ \A r \in Req : run[r].promise \in {0, 1} /\ run[r].browser \in {0, 1}

\* two runs hold the browser of the one launch, one of them having asked for it
\* while the launch was in flight
C8_Witness ==
    \E r1, r2 \in Req :
        /\ r1 # r2
        /\ run[r1].browser = 1 /\ run[r1].pc \in InTry
        /\ run[r2].browser = 1 /\ run[r2].pc \in InTry
        /\ run[r1].sawPromise = "null"
        /\ run[r2].sawPromise = "pending"

\* C9: on a page none of whose signals ever changes, goToNextVideo returns
\* moved=false, and returns no later than its deadline
C9_WithinDeadline ==
    (nav.pc = "returned" /\ ~nav.changed) =>
        (~nav.moved /\ nav.t <= nav.deadline)

\* on a page none of whose signals ever changes, goToNextVideo returns
\* moved=false
C9_Terminates ==
    (nav.pc = "returned" /\ ~nav.changed) => ~nav.moved

\* C10: whatever the page renders, the scroll loop has ended hardTimeout plus
\* one settle interval after its deadline was set, at the latest
C10_WithinTimeoutPlusSettle ==
    harvest.pc \in {"collect", "returned"} =>
        harvest.t <= harvest.hardTimeoutMs + SettleMs

\* the comment texts of the rendered nodes that have one, in document order
renderedTexts(nodes) ==
    SelectSeq([j \in 1..Len(nodes) |-> commentText(nodes[j])],
              LAMBDA t : t # <<>>)

\* C11: extractComments returns at most limit comments, and they are the first
\* of the rendered comments in document order, however many nodes are rendered
C11_AtMostLimitInOrder ==
    harvest.pc = "returned" =>
        /\ Len(harvest.items) <= harvest.limit
        /\ Len(harvest.items) =
               Min(harvest.limit, Len(renderedTexts(harvest.nodes)))
        /\ \A j \in 1..Len(harvest.items) :
              harvest.items[j].text = renderedTexts(harvest.nodes)[j]

\* a call returned limit comments from a page that had rendered more nodes with
\* text than that
C11_Witness ==
    /\ harvest.pc = "returned"
    /\ Len(harvest.items) = harvest.limit
    /\ Len(renderedTexts(harvest.nodes)) > harvest.limit

\* C12: when goToNextVideo reports moved=false after video i, the run stops
\* without error: the items are kept, navFailures is incremented, the step is
\* recorded in perVideo with navSucceeded=false, nothing is extracted or
\* navigated afterwards, and the run returns the items with the metrics
C12_NavFailureNotFatal ==
    [][\A r \in Req :
          /\ (run[r].pc = "navigate" /\ run'[r].event = "navStuck") =>
                /\ ~run'[r].thrown
                /\ run'[r].pc = "closing"
                /\ run'[r].items = run[r].items
                /\ run'[r].metrics.navFailures = run[r].metrics.navFailures + 1
                /\ run'[r].metrics.perVideo =
                       Append(run[r].metrics.perVideo,
                              [run[r].per EXCEPT !.navSucceeded = FALSE,
                                                 !.endedAt = "stamped"])
                /\ run[r].per.index = run[r].i
          /\ run'[r].event = "navStuck" => run'[r].pc \in {"closing", "done"}
          /\ (run[r].event = "navStuck" /\ run'[r] # run[r]
                  /\ run'[r].id = run[r].id) =>
                /\ run'[r].pc = "done"
                /\ withoutFlag(run'[r].response.items) = run[r].items
                /\ run'[r].response.metrics = <<run[r].metrics>>
      ]_vars

\* a run that targeted two videos has returned the first one after a navigation
\* failure
C12_Witness ==
    \E r \in Req :
        /\ run[r].pc = "done"
        /\ run[r].event = "navStuck"
        /\ run[r].maxCount = 2
        /\ Len(run[r].response.items) = 1
        /\ run[r].metrics.navFailures = 1
        /\ Len(run[r].metrics.perVideo) = 1

\* C13: when the extraction of video i throws, the message is appended to the
\* step's errors, no item is added, the items collected are kept, and the run
\* goes on to the navigation, or ends normally when i was the last target
C13_ExtractionFailureContinues ==
    [][\A r \in Req :
          (run[r].pc = "extract" /\ run'[r].event = "extractThrew") =>
              /\ ~run'[r].thrown
              /\ run'[r].items = run[r].items
              /\ run'[r].per.errors = Append(run[r].per.errors, "extraction failed")
              /\ run'[r].per.index = run[r].i
              /\ IF run[r].i = run[r].maxCount - 1
                 THEN /\ run'[r].pc = "closing"
                      /\ run'[r].metrics.perVideo =
                             Append(run[r].metrics.perVideo, run'[r].per)
                 ELSE /\ run'[r].pc = "navigate"
                      /\ run'[r].metrics.perVideo = run[r].metrics.perVideo
      ]_vars

\* a run whose first extraction threw has gone on and returned the second video
C13_Witness ==
    \E r \in Req :
        /\ run[r].pc = "done"
        /\ Len(run[r].metrics.perVideo) = 2
        /\ run[r].metrics.perVideo[1].errors # <<>>
        /\ run[r].metrics.perVideo[2].errors = <<>>
        /\ Len(run[r].items) = 1

\* C14: a run fails only by a failure before its first video (acquiring the
\* browser and the page, or the setup), never by one in a later step
C14_NoFailureAfterFirstVideo ==
    \A r \in Req :
        run[r].thrown => run[r].event \in {"acquireFailed", "setupFailed"}

\* the search phrase of the run is one buildSearchUrl rejects
inputError(r) ==
    /\ run[r].pc # "idle"
    /\ run[r].mode = "search"
    /\ buildSearchUrl(run[r].search).threw

\* C15: for an input error the run never starts: no page is opened and nothing
\* is written to the cache
C15_RunNeverStarts ==
    \A r \in Req :
        inputError(r) =>
            /\ run[r].browser = 0
            /\ run[r].id \notin openPages
            /\ ~MapHas(lru, run[r].rawKey)

\* for an input error the run fails and nothing is written to the cache
C15_Surfaced ==
    \A r \in Req :
        inputError(r) =>
            /\ run[r].pc # "done"
            /\ ~MapHas(lru, run[r].rawKey)

\* C16: a probe that finds a challenge increments the captcha counter by one and
\* suspends the run; the counter changes at no other step; a suspended run
\* changes only by the operator's input, which starts the extraction
C16_CaptchaSuspends ==
    [][\A r \in Req :
          /\ (run[r].pc = "probe" /\ run'[r] # run[r]) =>
                \/ /\ run'[r].event = "probeChallenge"
                   /\ run'[r].pc = "captchaWait"
                   /\ run'[r].metrics.captchas = run[r].metrics.captchas + 1
                \/ /\ run'[r].event = "probeClear"
                   /\ run'[r].pc = "extract"
                   /\ run'[r].metrics.captchas = run[r].metrics.captchas
          /\ (run[r].pc # "probe" /\ run'[r].id = run[r].id) =>
                run'[r].metrics.captchas = run[r].metrics.captchas
          /\ (run[r].pc = "captchaWait" /\ run'[r] # run[r]) =>
                run'[r] = [run[r] EXCEPT !.pc = "extract", !.event = "input"]
          /\ (run'[r].pc = "extract" /\ run'[r].mode = "search") =>
                run'[r].event \in {"probeClear", "input"}
      ]_vars

\* a run suspended at a captcha has been resumed by the operator and has
\* returned its video, with one captcha counted
C16_Witness ==
    \E r \in Req :
        /\ run[r].pc = "done"
        /\ run[r].metrics.captchas = 1
        /\ Len(run[r].items) = 1

\* C17: in every run, of scrapeFromSearch or of scrapeSequence, an extraction
\* starts only after the captcha probe of its step
C17_ProbeBeforeExtraction ==
    \A r \in Req :
        run[r].pc = "extract" => run[r].event \in {"probeClear", "input"}

\* C18: every step belongs to one run: no step changes the progress of two runs
C18_StepsOfOneRun ==
    [][\A r1, r2 \in Req :
          r1 # r2 => (run'[r1] = run[r1] \/ run'[r2] = run[r2])
      ]_vars

\* the normalized needle is a substring of the normalized haystack
normalizedSubstring(haystack, needle) == includes(norm(haystack), norm(needle))

\* the normalized keyword is a substring of the item's normalized description or
\* of the normalized text of one of its comments
keywordAppears(v, keyword) ==
    \/ normalizedSubstring(v.description, keyword)
    \/ \E c \in 1..Len(v.comments) :
          normalizedSubstring(v.comments[c].text, keyword)

C20_NoCompounding ==
    ann.pc = "done" => (ann.twice = ann.direct /\ ann.source = ann.items)

\* two keywords that flag an item differently were applied one after the other
C20_Witness ==
    /\ ann.pc = "done"
    /\ \E j \in 1..Len(ann.once) :
          ann.once[j].keywordMentioned # ann.direct[j].keywordMentioned
    /\ ann.twice = ann.direct

\* the positions of the flagged items of a list, and the k-th of them
flaggedAt(items) == {j \in 1..Len(items) : items[j].keywordMentioned}

kthFlagged(items, k) ==
    CHOOSE j \in flaggedAt(items) :
        Cardinality({i \in flaggedAt(items) : i <= j}) = k

\* the flagged items of a list, in the order of the list
flaggedInOrder(items) ==
    [k \in 1..Cardinality(flaggedAt(items)) |-> items[kthFlagged(items, k)]]

\* C21: with showVideoOnlyWithMatchKeyword the filter returns exactly the
\* flagged items in their original order, without it all items in their
\* original order, and filtering the flagged items again changes nothing
C21_FilterExact ==
    ann.pc = "done" =>
        /\ ann.filtered = IF ann.showOnly THEN flaggedInOrder(ann.once) ELSE ann.once
        /\ ann.matching = flaggedInOrder(ann.once)
        /\ ann.again = ann.matching

\* the filter was on and dropped an item between or beside items it kept
C21_Witness ==
    /\ ann.pc = "done"
    /\ ann.showOnly
    /\ Len(ann.filtered) >= 1
    /\ Len(ann.filtered) < Len(ann.once)
    /\ ann.again = ann.filtered

\* every key is stored once, with its items, its metrics and its time
wholeEntries(m) ==
    /\ \A i, j \in 1..Len(m) : m[i].key = m[j].key => i = j
    /\ \A i \in 1..Len(m) :
          DOMAIN m[i] = {"key", "items", "metrics", "createdAt"}

\* the entry of every key but k is in the map afterwards as it was before
othersKept(k) ==
    \A k2 \in MapKeys(lru) \ {k} :
        MapHas(lru', k2) /\ MapGet(lru', k2) = MapGet(lru, k2)

\* ... or is gone from a map that is full
othersKeptOrEvicted(k) ==
    \A k2 \in MapKeys(lru) \ {k} :
        \/ MapHas(lru', k2) /\ MapGet(lru', k2) = MapGet(lru, k2)
        \/ ~MapHas(lru', k2) /\ Len(lru') = CACHE_MAX_ENTRIES

\* C22: whatever the interleaving of two requests, every state of the cache a
\* request can read holds whole entries, one per key; a set leaves its key
\* stored with the new value; a get or a set leaves every other key's entry as
\* it was, unless the set evicts it from a full cache
C22_AtomicSet ==
    [][/\ wholeEntries(lru')
       /\ \A r \in Req :
             /\ (SetStep(r) /\ ~run[r].thrown) =>
                   /\ MapHas(lru', run[r].rawKey)
                   /\ MapGet(lru', run[r].rawKey).items = run[r].items
                   /\ MapGet(lru', run[r].rawKey).createdAt = now
                   /\ othersKeptOrEvicted(run[r].rawKey)
             /\ GetStep(r) => othersKept(run'[r].rawKey)]_vars

\* two runs of the same key were in flight together, so that the set of the
\* second replaced the entry of the first, next to the entry of another key
C22_Witness ==
    /\ CACHE_TTL_MS = 0
    /\ Len(lru) = 2
    /\ \A r \in Req :
          /\ run[r].pc = "done"
          /\ ~run[r].forceRefresh
          /\ ~run[r].response.fromCache
    /\ run[1].rawKey = run[2].rawKey

\* this step is the end of the run of slot r: its finally block
RunEndStep(r) == run[r].pc = "closing" /\ run'[r].pc \in {"done", "failed"}

hasData(v) == v # Null /\ v # <<>>

\* the first source of a precedence list that has data, or Null
RECURSIVE firstWithData(_)
firstWithData(sources) ==
    IF sources = <<>> THEN Null
    ELSE IF hasData(Head(sources)) THEN Head(sources)
    ELSE firstWithData(Tail(sources))

\* the field is the first source with data, and has none only if no source has
resolvedBy(field, sources) ==
    IF firstWithData(sources) = Null THEN ~hasData(field)
    ELSE field = firstWithData(sources)

\* C24: caption, username, authorUrl and title are each the first source of
\* their precedence list that has data, and are without data only when no
\* source of the list has data; title always has data
C24_Precedence ==
    fn.pc = "done" =>
        LET a == fn.arg
            r == fn.result
            oe(f) == IF a.oembed = <<>> THEN Null ELSE a.oembed[1][f]
            pageUrl == orElse(normalizeVideoUrl(a.currentUrl), a.currentUrl)
        IN  /\ resolvedBy(r.caption,
                   <<oe("title"), domCaption(a.captionEls, Null), a.metaDesc>>)
            /\ resolvedBy(r.username,
                   <<IF oe("author_name") = Null THEN Null
                     ELSE stripAt(oe("author_name")),
                     usernameFromUrl(a.currentUrl), domUsername(a.link)>>)
            /\ resolvedBy(r.authorUrl,
                   <<oe("author_url"),
                     IF hasData(r.username)
                     THEN <<"https://www.tiktok.com", "/@">> \o r.username
                     ELSE Null,
                     domAuthorUrl(a.link)>>)
            /\ resolvedBy(r.title, <<a.ogContent, a.docTitle, r.caption, pageUrl>>)
            /\ hasData(r.title)

\* the host is the target site's domain or a subdomain of it
isTargetDomain(h) == h \in {"tiktok.com", "www.tiktok.com"}

\* C25: buildSearchUrl throws for every URL whose host is not the target
\* site's domain, hosts that only contain its name included, and for empty
\* input; it returns a URL only for a phrase or a URL of the target domain
C25_RejectsForeignHosts ==
    (fn.pc = "done" /\ fn.name = "buildSearchUrl") =>
        LET s == trim(fn.arg)
        IN  /\ s = <<>> => fn.result.threw
            /\ (isHttpUrl(s) /\ ~isTargetDomain(s[2])) => fn.result.threw
            /\ ~fn.result.threw =>
                   (s # <<>> /\ (isHttpUrl(s) => isTargetDomain(s[2])))

\* this step is one turn of the poll of a rung: hasChanged is evaluated
PollTurn ==
    /\ nav.pc = "poll"
    /\ nav.t < nav.localDeadline
    /\ nav'.page = nav.page
    /\ nav'.pc # "threw"

\* C26: a turn of the poll at which the URL, the media source or the caption
\* differs from the snapshot detects the change, and the call returns
\* moved=true; a source where the snapshot had none and a caption that became
\* empty count as differences
C26_AnySignalDetected ==
    [][(PollTurn /\ nav.page # nav.before) =>
           (nav'.pc = "returned" /\ nav'.moved)]_vars

\* C27: the actions of the ladder are invoked in their fixed order, one at a
\* time and each followed by its poll; the step that detects a change returns
\* moved=true, and no action is invoked once a change was detected
C27_FirstChangeWins ==
    [][/\ nav'.invoked = SubSeq(actions, 1, nav'.rung)
       /\ nav'.invoked # nav.invoked =>
             /\ nav.pc = "ladder"
             /\ ~nav.moved
             /\ nav'.pc = "poll"
             /\ nav'.invoked = Append(nav.invoked, actions[Len(nav.invoked) + 1])
       /\ (nav'.moved /\ ~nav.moved) =>
             /\ PollTurn
             /\ hasChanged(nav.page, nav.before)
             /\ nav'.pc = "returned"
             /\ nav'.invoked = nav.invoked]_vars

\* the first action changed nothing within its poll, the second one did, and
\* the call returned moved=true with four actions never invoked
C27_Witness ==
    /\ nav.pc = "returned"
    /\ nav.moved
    /\ nav.invoked = <<"ArrowDown", "ArrowRight">>

\* C28 as stated: the attempts goToNextVideo reports are the ladder rungs it
\* invoked, each counted once
C28_Original ==
    nav.pc = "returned" => nav.attempts = Len(nav.invoked)

\* the Enter keystrokes of a call: one before the ladder when the page is not
\* on a video URL, one after a detected change that left it on no video URL
enterKeystrokes ==
    (IF ~isVideoUrl(nav.before.url) THEN 1 ELSE 0) +
    (IF nav.moved /\ ~isVideoUrl(nav.page.url) THEN 1 ELSE 0)

\* C28 amended: the attempts reported are the ladder rungs invoked, each counted
\* once, plus the Enter keystrokes pressed before the ladder and after a
\* detected change
C28_RungsAndKeystrokes ==
    nav.pc = "returned" => nav.attempts = Len(nav.invoked) + enterKeystrokes

\* a call that began off a video URL, invoked two rungs and landed off a video
\* URL reports four attempts
C28_Witness ==
    /\ nav.pc = "returned"
    /\ Len(nav.invoked) = 2
    /\ nav.attempts = 4

\* the run of slot r returned: its loop ended without a throw
returned(me) ==
    me.pc \in {"closing", "done"} /\ ~me.thrown /\ me.event # "none"

\* C29: the perVideo list of a run only grows, by one sealed entry at a time
\* whose index is its position; the entry of the current step is the step's
\* record as it is, so nothing is written to a record after it was appended;
\* and when the run returns, every step that began has its entry, whether it
\* ended by success, extraction failure, navigation failure or the target count
C29_PerVideoLifecycle ==
    [][\A r \in Req :
          LET me == run'[r]
              pv == me.metrics.perVideo
              old == run[r].metrics.perVideo
          IN  /\ \A k \in 1..Len(pv) :
                    pv[k].index = k - 1 /\ pv[k].endedAt = "stamped"
              /\ me.id = run[r].id =>
                    /\ Len(old) <= Len(pv)
                    /\ Len(pv) <= Len(old) + 1
                    /\ SubSeq(pv, 1, Len(old)) = old
              /\ Len(pv) > me.per.index => pv[me.per.index + 1] = me.per
              /\ returned(me) => Len(pv) = me.per.index + 1]_vars

\* a run returned after two steps: the first ended by a successful navigation,
\* the second by an extraction failure on the last target
C29_Witness ==
    /\ run[1].pc = "done"
    /\ ~run[1].thrown
    /\ Len(run[1].metrics.perVideo) = 2
    /\ run[1].metrics.perVideo[1].navSucceeded
    /\ run[1].metrics.perVideo[2].errors # <<>>

\* the sum of the commentsCount of the entries of a perVideo list
RECURSIVE sumComments(_)
sumComments(pv) ==
    IF pv = <<>> THEN 0 ELSE Head(pv).commentsCount + sumComments(Tail(pv))

C31_FailureLeavesCache ==
    [][\A r \in Req :
          /\ (/\ run[r].pc \notin {"idle", "done", "failed"}
              /\ run'[r] # run[r]
              /\ ~SetStep(r)) => lru' = lru
          /\ (RunEndStep(r) /\ run[r].thrown) =>
                /\ run'[r].pc = "failed"
                /\ lru' = lru
                /\ ~run[r].forceRefresh => ~MapHas(lru', run[r].rawKey)
                /\ (run[r].forceRefresh /\ run[r].sawFresh) =>
                      MapHas(lru', run[r].rawKey)
          /\ (/\ run[r].pc = "failed"
              /\ GetStep(r)
              /\ run'[r].rawKey = run[r].rawKey
              /\ FreshAt(run[r].rawKey)) =>
                /\ AnsweredFromCache(r)
                /\ withoutFlag(run'[r].response.items) =
                       MapGet(lru, run[r].rawKey).items
      ]_vars

\* a forced request that arrived on a fresh entry has failed; the entry is
\* still stored with its earlier stamp and still the least recently used of two
C31_Witness ==
    \E r \in Req :
        /\ run[r].pc = "failed"
        /\ run[r].forceRefresh
        /\ run[r].sawFresh
        /\ Len(lru) = 2
        /\ lru[1].key = run[r].rawKey
        /\ lru[1].createdAt < now
        /\ FreshAt(run[r].rawKey)

\* C32: a run that returns is stored under its key whatever it yielded (no
\* item, fewer than asked, a dead end): the entry holds the run's items and
\* metrics stamped now, and the next request for the same key, not forced and
\* within the TTL, is answered from it without a run
C32_ReturnedRunCached ==
    [][\A r \in Req :
          /\ (RunEndStep(r) /\ ~run[r].thrown) =>
                /\ SetStep(r)
                /\ ~run'[r].response.fromCache
                /\ MapHas(lru', run[r].rawKey)
                /\ MapGet(lru', run[r].rawKey).items = run[r].items
                /\ MapGet(lru', run[r].rawKey).metrics = run[r].metrics
                /\ MapGet(lru', run[r].rawKey).createdAt = now
          /\ (/\ run[r].pc = "done"
              /\ GetStep(r)
              /\ run'[r].rawKey = run[r].rawKey) =>
                /\ MapHas(lru, run[r].rawKey)
                /\ FreshAt(run[r].rawKey) =>
                      /\ AnsweredFromCache(r)
                      /\ withoutFlag(run'[r].response.items) =
                             MapGet(lru, run[r].rawKey).items
      ]_vars

\* a request for two videos is answered from the cache with no item: the run
\* that stored the entry lost its extraction and then met a dead end
C32_Witness ==
    \E r \in Req :
        /\ run[r].pc = "done"
        /\ run[r].response.fromCache
        /\ run[r].response.items = <<>>
        /\ run[r].maxCount = 2
        /\ MapHas(lru, run[r].rawKey)
        /\ MapGet(lru, run[r].rawKey).items = <<>>
        /\ MapGet(lru, run[r].rawKey).metrics.navFailures = 1
        /\ MapGet(lru, run[r].rawKey).createdAt < now

\* the run of slot r is in flight: requested and not yet ended
inFlight(r) == run[r].pc \notin {"idle", "done", "failed"}

\* the number of entries stored under key
entriesOf(m, key) == Cardinality({i \in 1..Len(m) : m[i].key = key})

\* C33: misses are not coalesced. A request that is not forced and finds no
\* fresh entry starts a run of its own even when a run for the same key is in
\* flight; each run opens a page of its own; each returns fromCache = false;
\* and each set leaves exactly one entry for the key, holding the items of the
\* run that has just ended, so that after both the entry is that of the last
C33_MissesNotCoalesced ==
    [][\A r \in Req :
          /\ (GetStep(r) /\ ~FreshAt(run'[r].rawKey)) =>
                /\ run'[r].pc = "awaitBrowser"
                /\ \A q \in Req \ {r} : run'[q] = run[q]
          /\ (run[r].pc = "awaitBrowser" /\ run'[r].pc = "setup") =>
                /\ run[r].id \notin openPages
                /\ openPages' = openPages \cup {run[r].id}
                /\ \A q \in Req \ {r} : run[q].id # run[r].id
          /\ (RunEndStep(r) /\ ~run[r].thrown) =>
                /\ ~run'[r].response.fromCache
                /\ withoutFlag(run'[r].response.items) = run[r].items
                /\ entriesOf(lru', run[r].rawKey) = 1
                /\ MapGet(lru', run[r].rawKey).items = run[r].items
                /\ MapGet(lru', run[r].rawKey).metrics = run[r].metrics
                /\ MapGet(lru', run[r].rawKey).createdAt = now
      ]_vars

\* without expiry, two requests of one key have both missed, so the second
\* arrived before the first had finished; the first returned an item, the
\* second, which finished later, none, and the one entry stored is the second's
C33_Witness ==
    /\ CACHE_TTL_MS = 0
    /\ requests = 2
    /\ \A r \in Req : run[r].pc = "done" /\ ~run[r].response.fromCache
    /\ run[1].rawKey = run[2].rawKey
    /\ Len(run[1].response.items) = 1
    /\ run[2].response.items = <<>>
    /\ entriesOf(lru, run[2].rawKey) = 1
    /\ MapGet(lru, run[2].rawKey).items = <<>>
    /\ MapGet(lru, run[2].rawKey).createdAt = now
    /\ now > 0

====
